---- MODULE Spec2Model ----
(***************************************************************************)
(* A model of the concurrency scripts of Agents_Demystified,               *)
(* "Advance Topics": the lock-guarded and the unguarded shared counter     *)
(* (08_thread_lock.py, 12_process_value.py, 09_race_condition.py), the     *)
(* two-lock scripts (10_deadlock.py and the remedies it lists), and the    *)
(* start-all / join-all scripts whose workers only wait (01_threading.py,  *)
(* 02_multiprocessing.py, 05_thread_one.py, 07_thread_download.py), the    *)
(* coroutines on the event loop (01_async_one.py, 02_async_two.py), the    *)
(* blocking calls handed to a pool (04_thread_async.py,                    *)
(* 05_process_async.py), the background thread that loops forever         *)
(* (06_bgworker.py, 07_daemon.py, 08_non_daemon.py), the queue between     *)
(* processes (11_process_queue.py) and the CPU-bound workers               *)
(* (03_gil_threading.py, 04_gil_multiprocessing.py, 09_process_one.py).    *)
(*                                                                         *)
(* Each script is one specification over the same variables; the variables *)
(* of the scripts a specification does not run keep their initial value.   *)
(***************************************************************************)
EXTENDS Naturals, Integers, Sequences, FiniteSets, TLC

VARIABLES
    \* ---- shared counter scripts (08_thread_lock / 12_process_value / 09_race_condition)
    guarded,    \* TRUE: every increment is inside `with lock:`; FALSE: bare `+= 1`
    counter,    \* the shared integer (counter / counter.value / chai_stock)
    lock,       \* owner of the lock, NoOwner when free
    cpc,        \* per worker: where it is in increment() / restock()
    iter,       \* per worker: iterations of the for loop completed
    tmp,        \* per worker: the value `+= 1` holds between its read and its write
    exc,        \* per worker: an exception is propagating out of the with body
    mpc,        \* main flow: "start", "join", "verify", then the branch printed
    mi,         \* main flow: index of the next worker to start / join
    \* ---- two-lock scripts (10_deadlock.py)
    order,      \* per task: the two locks in the order the task acquires them
    held,       \* per lock: the task holding it, NoOwner when free
    tpc,        \* per task: where it is in task1() / task2()
    dout,       \* the lines printed so far, in order: <<task, what, lock>>
    timedOut,   \* per task: locks whose timed acquire returned False
    dpc,        \* main flow of the two-lock script: "start", "join", "completed"
    di,         \* main flow: the task to start / join next
    \* ---- start-all / join-all scripts with simulated waits
    waits,      \* per worker: the sequence of sleep durations it performs
    wst,        \* per worker: lifecycle state
    wk,         \* per worker: index of the sleep it is in (or about to do)
    rem,        \* per worker: time left in its current sleep
    finish,     \* per worker: clock value when it completed
    now,        \* the clock
    jpc,        \* main flow: "start", "join", "after" ("sstart", "sjoin", ...: join in the loop)
    ji,         \* main flow: index of the next worker to start / join
    tstart,     \* start = time.time()
    tend,       \* end = time.time()
    \* ---- coroutines on the event loop (01_async_one.py, 02_async_two.py)
    durs,       \* per brew: how long its awaited operation takes
    blocking,   \* TRUE: brew waits with time.sleep (02_async_two.py line 78)
    gathered,   \* TRUE: main() gathers the brews; FALSE: the brew is the root
    ast,        \* per task: "NONE", "PENDING", "RUNNING", "SUSPENDED", "DONE", "FAILED"
    apc,        \* per task: the statement it executes next
    ready,      \* the loop's ready queue, first in first out
    timers,     \* the loop's timers <<task, due>>, in the order they were set
    anow,       \* the clock
    aout,       \* the lines printed so far, in order: <<what, task>>
    res,        \* per task: the value it returned, <<>> while it has none
    gfut,       \* the future gather returned: its state and its value
    rpc,        \* module level: "before", "running", "returned", "raised", "done"
    astart,     \* start = time.time()
    aend,       \* end = time.time()
    \* ---- blocking calls handed to a pool (04_thread_async.py, 05_process_async.py)
    ekind,      \* "thread": ThreadPoolExecutor, "process": ProcessPoolExecutor
    ncpu,       \* the workers of ProcessPoolExecutor(): one per processor
    eargs,      \* per call: the argument main() passes to run_in_executor
    est,        \* per call: "none", "submitted", "sleeping", "returned", "done"
    edue,       \* per call: when the time.sleep of its worker ends
    wire,       \* per call: what is on its way between main() and the worker
    evalue,     \* per call: the result of awaiting it, <<>> while it has none
    epc,        \* main(): "begin", "await", "print", "end"
    enow,       \* the clock
    eout,       \* the lines printed so far, in order
    estart,     \* start = time.time()
    eend,       \* end = time.time()
    \* ---- a background thread that loops forever (06_bgworker.py, 07_daemon.py,
    \*      08_non_daemon.py)
    daemon,     \* the thread was created with daemon=True
    hybrid,     \* TRUE: 06_bgworker.py, the main flow is asyncio.run(fetch_orders())
    wpc,        \* the thread: "new", "test", "print", "sleep", "asleep", "ended"
    wrem,       \* the thread: time left in its time.sleep
    prog,       \* main flow: "start", "main", "await", "ran", "note", "shutdown", "exited"
    rrem,       \* fetch_orders: time left in its asyncio.sleep
    lout,       \* the last lines printed, in order
    since,      \* time passed since the main flow printed its last line
    stop,       \* stop_flag: "none" (the script has none), "clear", "set"
    \* ---- a queue between processes (11_process_queue.py)
    drain,      \* TRUE: several producers and the drain loop; FALSE: the script
    qpc,        \* per producer process: "new", "put", "return", "exited" (main: "mput", "sent")
    qk,         \* per producer: how many items it has still to put
    qbuf,       \* per producer: items its put() accepted, not yet in the pipe
    pipe,       \* the queue's pipe: the pickled items, oldest first
    qlog,       \* the items in the order their put() returned
    qmain,      \* the getting side (main flow): "start", "join", "get", "done"
    qi,         \* main flow: index of the next process to start / join
    got,        \* the values queue.get() returned to main, in order
    \* ---- CPU-bound workers under the interpreter lock (03_gil_threading.py,
    \*      09_process_one.py: threads; 04_gil_multiprocessing.py: processes)
    threads,    \* TRUE: the workers are threads of one interpreter
    work,       \* time units of computation each worker's loop needs
    gst,        \* per worker: "new", "ready", "computing", "finished"
    grem,       \* per worker: computation left
    ran,        \* the workers that executed bytecode during the last time unit
    gnow,       \* the clock
    gpc,        \* main flow: "begin", "start", "join", "end", "after"
    gi,         \* main flow: index of the next worker to start / join
    gstart,     \* start = time.time()
    gend        \* end = time.time()

counterVars == <<guarded, counter, lock, cpc, iter, tmp, exc, mpc, mi>>
lockVars    == <<order, held, tpc, dout, timedOut, dpc, di>>
joinVars    == <<waits, wst, wk, rem, finish, now, jpc, ji, tstart, tend>>
aioVars     == <<durs, blocking, gathered, ast, apc, ready, timers, anow,
                 aout, res, gfut, rpc, astart, aend>>
poolVars    == <<ekind, ncpu, eargs, est, edue, wire, evalue, epc, enow, eout,
                 estart, eend>>
lifeVars    == <<daemon, hybrid, wpc, wrem, prog, rrem, lout, since, stop>>
procVars    == <<drain, qpc, qk, qbuf, pipe, qlog, qmain, qi, got,
                 threads, work, gst, grem, ran, gnow, gpc, gi, gstart, gend>>
vars        == <<counterVars, lockVars, joinVars, aioVars, poolVars, lifeVars,
                 procVars>>

\* What an action of one script leaves alone: the variables of the others.
NotCounter == <<lockVars, joinVars, aioVars, poolVars, lifeVars, procVars>>
NotLock    == <<counterVars, joinVars, aioVars, poolVars, lifeVars, procVars>>
NotJoin    == <<counterVars, lockVars, aioVars, poolVars, lifeVars, procVars>>
NotAio     == <<counterVars, lockVars, joinVars, poolVars, lifeVars, procVars>>
NotPool    == <<counterVars, lockVars, joinVars, aioVars, lifeVars, procVars>>
NotLife    == <<counterVars, lockVars, joinVars, aioVars, poolVars, procVars>>
NotProc    == <<counterVars, lockVars, joinVars, aioVars, poolVars, lifeVars>>

NoOwner == 0

(***************************************************************************)
(* Bounds.  The scripts run 10 threads (4 processes, 2 threads) of 100000  *)
(* increments; the model runs NWorkers workers of KIncr increments.        *)
(***************************************************************************)
NWorkers == 2
KIncr == 2

Workers == 1..NWorkers

Expected == NWorkers * KIncr

(***************************************************************************)
(* Shared counter: idle and initial states                                 *)
(***************************************************************************)
CounterIdle ==
    /\ guarded = TRUE
    /\ counter = 0
    /\ lock = NoOwner
    /\ cpc = [w \in Workers |-> "idle"]
    /\ iter = [w \in Workers |-> 0]
    /\ tmp = [w \in Workers |-> 0]
    /\ exc = [w \in Workers |-> FALSE]
    /\ mpc = "idle"
    /\ mi = 0

\* counter = 0 ; lock = threading.Lock() ; threads = [Thread(...) ...] (not started)
CounterInit ==
    /\ guarded \in BOOLEAN
    /\ counter = 0
    /\ lock = NoOwner
    /\ cpc = [w \in Workers |-> "new"]
    /\ iter = [w \in Workers |-> 0]
    /\ tmp = [w \in Workers |-> 0]
    /\ exc = [w \in Workers |-> FALSE]
    /\ mpc = "start"
    /\ mi = 1

(***************************************************************************)
(* Shared counter: the worker, increment() / restock()                     *)
(***************************************************************************)
Finished == {"done", "raised"}

\* `for _ in range(100000):` -- take the next iteration or leave the loop.
\* The guarded scripts enter `with lock:`, 09_race_condition.py goes straight
\* to `chai_stock += 1`.
ForNext(w) ==
    /\ cpc[w] = "loop"
    /\ cpc' = [cpc EXCEPT ![w] = IF iter[w] >= KIncr THEN "done"
                                 ELSE IF guarded THEN "with" ELSE "read"]
    /\ UNCHANGED <<guarded, counter, lock, iter, tmp, exc, mpc, mi>>
    /\ UNCHANGED NotCounter

\* Mutant: acquire never blocks.
CanAcquireAlways(w) == TRUE

\* lock.acquire() blocks while another worker holds the lock.
CanAcquire(w) == lock = NoOwner

\* `with lock:` / `with counter.get_lock():` -- __enter__ acquires.
WithEnter(w) ==
    /\ cpc[w] = "with"
    /\ CanAcquire(w)
    /\ lock' = w
    /\ cpc' = [cpc EXCEPT ![w] = "read"]
    /\ UNCHANGED <<guarded, counter, iter, tmp, exc, mpc, mi>>
    /\ UNCHANGED NotCounter

\* `counter += 1`, step 1: READ  temp = counter
Read(w) ==
    /\ cpc[w] = "read"
    /\ tmp' = [tmp EXCEPT ![w] = counter]
    /\ cpc' = [cpc EXCEPT ![w] = "add"]
    /\ UNCHANGED <<guarded, counter, lock, iter, exc, mpc, mi>>
    /\ UNCHANGED NotCounter

\* `counter += 1`, step 2: ADD  temp = temp + 1
Add(w) ==
    /\ cpc[w] = "add"
    /\ tmp' = [tmp EXCEPT ![w] = tmp[w] + 1]
    /\ cpc' = [cpc EXCEPT ![w] = "write"]
    /\ UNCHANGED <<guarded, counter, lock, iter, exc, mpc, mi>>
    /\ UNCHANGED NotCounter

\* Mutant: an atomic increment, which stores the current value plus one.
StoredCurrent(w) == counter + 1

\* The value step 3 stores: the worker's own temp, whatever the counter is now.
Stored(w) == tmp[w]

\* `counter += 1`, step 3: WRITE  counter = temp.  Unguarded, this ends the
\* iteration; guarded, the with block is left next.
Write(w) ==
    /\ cpc[w] = "write"
    /\ counter' = Stored(w)
    /\ cpc' = [cpc EXCEPT ![w] = IF guarded THEN "exit" ELSE "loop"]
    /\ iter' = [iter EXCEPT ![w] = IF guarded THEN iter[w] ELSE iter[w] + 1]
    /\ UNCHANGED <<guarded, lock, tmp, exc, mpc, mi>>
    /\ UNCHANGED NotCounter

\* Mutant: release only on the normal exit path.
ExitLockNormalOnly(w, raised) == IF raised THEN w ELSE NoOwner

\* The owner of the lock after the with block is left by worker w, `raised`
\* telling whether it is left by an exception:
\*     try: counter += 1  finally: lock.release()
ExitLock(w, raised) == NoOwner

\* `with lock:` -- __exit__ releases; a propagating exception then ends the
\* worker, a normal exit ends the iteration.
WithExit(w) ==
    /\ cpc[w] = "exit"
    /\ lock' = ExitLock(w, exc[w])
    /\ cpc' = [cpc EXCEPT ![w] = IF exc[w] THEN "raised" ELSE "loop"]
    /\ iter' = [iter EXCEPT ![w] = IF exc[w] THEN iter[w] ELSE iter[w] + 1]
    /\ UNCHANGED <<guarded, counter, tmp, exc, mpc, mi>>
    /\ UNCHANGED NotCounter

\* The body of the with block raises (the "even if exception" case of the
\* try/finally the with statement stands for).
BodyRaises(w) ==
    /\ guarded
    /\ cpc[w] \in {"read", "add", "write"}
    /\ exc' = [exc EXCEPT ![w] = TRUE]
    /\ cpc' = [cpc EXCEPT ![w] = "exit"]
    /\ UNCHANGED <<guarded, counter, lock, iter, tmp, mpc, mi>>
    /\ UNCHANGED NotCounter

(***************************************************************************)
(* Shared counter: the main flow                                           *)
(***************************************************************************)
\* [t.start() for t in threads] -- one start per step, in list order.
MainStart ==
    /\ mpc = "start"
    /\ cpc' = [cpc EXCEPT ![mi] = "loop"]
    /\ mi' = IF mi = NWorkers THEN 1 ELSE mi + 1
    /\ mpc' = IF mi = NWorkers THEN "join" ELSE "start"
    /\ UNCHANGED <<guarded, counter, lock, iter, tmp, exc>>
    /\ UNCHANGED NotCounter

\* Mutant: join returns without waiting.
JoinReturnsAtOnce(w) == TRUE

\* t.join() returns once worker w has ended.
JoinReturns(w) == cpc[w] \in Finished

\* [t.join() for t in threads] -- one join per step, in list order.
MainJoin ==
    /\ mpc = "join"
    /\ JoinReturns(mi)
    /\ mi' = IF mi = NWorkers THEN mi ELSE mi + 1
    /\ mpc' = IF mi = NWorkers THEN "verify" ELSE "join"
    /\ UNCHANGED <<guarded, counter, lock, cpc, iter, tmp, exc>>
    /\ UNCHANGED NotCounter

\* The branch the result check prints:
\*   08_thread_lock / 12_process_value: counter == expected -> SUCCESS, else ERROR Lost
\*   09_race_condition: chai_stock < expected -> RACE CONDITION DETECTED, else Got lucky
Branch(value) ==
    IF guarded THEN (IF value = Expected THEN "success" ELSE "lost")
    ELSE (IF value < Expected THEN "detected" ELSE "lucky")

MainVerify ==
    /\ mpc = "verify"
    /\ mpc' = Branch(counter)
    /\ UNCHANGED <<guarded, counter, lock, cpc, iter, tmp, exc, mi>>
    /\ UNCHANGED NotCounter

CounterWorker(w) ==
    \/ ForNext(w)
    \/ WithEnter(w)
    \/ Read(w)
    \/ Add(w)
    \/ Write(w)
    \/ WithExit(w)

CounterMain ==
    \/ MainStart
    \/ MainJoin
    \/ MainVerify

(***************************************************************************)
(* Two-lock scripts: idle state                                            *)
(***************************************************************************)
Tasks == {1, 2}
Locks == {"a", "b"}

LockIdle ==
    /\ order = [t \in Tasks |-> <<"a", "b">>]
    /\ held = [l \in Locks |-> NoOwner]
    /\ tpc = [t \in Tasks |-> "idle"]
    /\ dout = <<>>
    /\ timedOut = [t \in Tasks |-> {}]
    /\ dpc = "idle"
    /\ di = 0

(***************************************************************************)
(* Start-all / join-all scripts: idle state                                *)
(***************************************************************************)
JoinIdle ==
    /\ waits = <<>>
    /\ wst = <<>>
    /\ wk = <<>>
    /\ rem = <<>>
    /\ finish = <<>>
    /\ now = 0
    /\ jpc = "idle"
    /\ ji = 0
    /\ tstart = 0
    /\ tend = 0

(***************************************************************************)
(* Coroutines on the event loop: idle state                                *)
(***************************************************************************)
\* main() gathers three brews (02_async_two.py lines 110-114)
NBrews == 3

\* task 0 is main(); tasks 1..NBrews are the brews
AllTasks == 0..NBrews

AioIdle ==
    /\ durs = <<>>
    /\ blocking = FALSE
    /\ gathered = FALSE
    /\ ast = [t \in AllTasks |-> "NONE"]
    /\ apc = [t \in AllTasks |-> "none"]
    /\ ready = <<>>
    /\ timers = <<>>
    /\ anow = 0
    /\ aout = <<>>
    /\ res = [t \in AllTasks |-> <<>>]
    /\ gfut = [st |-> "none", val |-> <<>>]
    /\ rpc = "idle"
    /\ astart = 0
    /\ aend = 0

(***************************************************************************)
(* Blocking calls handed to a pool: idle state                             *)
(***************************************************************************)
PoolIdle ==
    /\ ekind = "idle"
    /\ ncpu = 0
    /\ eargs = <<>>
    /\ est = <<>>
    /\ edue = <<>>
    /\ wire = <<>>
    /\ evalue = <<>>
    /\ epc = "idle"
    /\ enow = 0
    /\ eout = <<>>
    /\ estart = 0
    /\ eend = 0

(***************************************************************************)
(* Background thread scripts: idle state                                   *)
(***************************************************************************)
LifeIdle ==
    /\ daemon = FALSE
    /\ hybrid = FALSE
    /\ wpc = "idle"
    /\ wrem = 0
    /\ prog = "idle"
    /\ rrem = 0
    /\ lout = <<>>
    /\ since = 0
    /\ stop = "none"

(***************************************************************************)
(* Processes with a queue, CPU-bound workers: idle state                   *)
(***************************************************************************)
ProcIdle ==
    /\ drain = FALSE
    /\ qpc = <<>>
    /\ qk = <<>>
    /\ qbuf = <<>>
    /\ pipe = <<>>
    /\ qlog = <<>>
    /\ qmain = "idle"
    /\ qi = 0
    /\ got = <<>>
    /\ threads = FALSE
    /\ work = 0
    /\ gst = <<>>
    /\ grem = <<>>
    /\ ran = {}
    /\ gnow = 0
    /\ gpc = "idle"
    /\ gi = 0
    /\ gstart = 0
    /\ gend = 0

(***************************************************************************)
(* Specification of the shared counter scripts                             *)
(***************************************************************************)
Init == CounterInit /\ LockIdle /\ JoinIdle /\ AioIdle /\ PoolIdle /\ LifeIdle /\ ProcIdle

Next ==
    \/ \E w \in Workers : CounterWorker(w)
    \/ CounterMain

Spec == Init /\ [][Next]_vars

\* The same scripts, with the body of the with block allowed to raise.
NextFault ==
    \/ \E w \in Workers : CounterWorker(w)
    \/ \E w \in Workers : BodyRaises(w)
    \/ CounterMain

SpecFault == Init /\ [][NextFault]_vars

(***************************************************************************)
(* Properties of the shared counter scripts                                *)
(***************************************************************************)
Results == {"success", "lost", "detected", "lucky"}
Joined == mpc \in {"verify"} \cup Results
InSection(w) == cpc[w] \in {"read", "add", "write", "exit"}

\* C1: when every increment is made holding the guard, the value read after
\* all workers have been joined is exactly NWorkers * KIncr, in every
\* interleaving, and the "Lost ... increments" branch is never taken.
C1_GuardedTotalExact ==
    guarded => /\ (Joined => counter = Expected)
               /\ mpc # "lost"

C1_Witness == guarded /\ mpc = "success" /\ counter = Expected

\* C2: without the guard `chai_stock += 1` is a read / add / write sequence:
\* the write stores the worker's own temp whatever the counter has become, the
\* value after the joins is never above the expected total, and the
\* RACE CONDITION DETECTED branch is taken exactly when it is below it.
C2_NonAtomicIncrement ==
    /\ [](~guarded /\ mpc \in Results =>
            /\ counter <= Expected
            /\ (mpc = "detected" <=> counter < Expected))
    /\ [][\A w \in Workers :
            (~guarded /\ cpc[w] = "write" /\ cpc'[w] # "write")
                => counter' = tmp[w]]_vars

\* a lost update: both joins done, fewer than the expected total, branch taken
C2_Witness == ~guarded /\ mpc = "detected" /\ counter < Expected

\* C3 as stated: the observed value equals the sum of the increments if and
\* only if every increment went through the guard.
C3_Original == mpc \in Results => (counter = Expected <=> guarded)

\* C3 amended: with the guard the observed value equals the sum; without it
\* the value is never above the sum and may be below it or equal to it.
C3_GuardSufficient ==
    mpc \in Results => /\ counter <= Expected
                       /\ (counter # Expected => ~guarded)

\* the unguarded run that still totals correctly ("Got lucky this time")
C3_Witness == ~guarded /\ mpc = "lucky" /\ counter = Expected

\* C4: at most one worker is inside `with lock:` at a time, it is the owner
\* of the lock, and a worker enters the block only from a state in which the
\* lock is free.
C4_MutualExclusion ==
    /\ [](guarded => /\ Cardinality({w \in Workers : InSection(w)}) <= 1
                     /\ \A w \in Workers : InSection(w) => lock = w)
    /\ [][\A w \in Workers :
            (cpc[w] = "with" /\ cpc'[w] = "read") => lock = NoOwner]_vars

\* one worker in the section while another waits at `with lock:`
C4_Witness ==
    \E w, v \in Workers : w # v /\ InSection(w) /\ cpc[v] = "with" /\ lock = w

\* C5: `with lock:` holds the lock exactly while the worker is inside the
\* block; on every way out of the block, a raising body included, the lock
\* is released, so a worker between iterations or ended never holds it.
C5_ScopedRelease ==
    guarded => \A w \in Workers : (lock = w <=> InSection(w))

\* a worker ended by an exception in the body, the lock not held by it, and
\* another worker inside the block afterwards
C5_Witness ==
    \E w, v \in Workers : cpc[w] = "raised" /\ lock = v /\ v # w /\ InSection(v)

(***************************************************************************)
(* Two-lock scripts (10_deadlock.py): two tasks, two locks.  task1 takes   *)
(* lock_a then lock_b, task2 lock_b then lock_a; the remedies the script   *)
(* lists change the order (consistent ordering) or the acquire (timeout).  *)
(***************************************************************************)
ScriptOrder == [t \in Tasks |-> IF t = 1 THEN <<"a", "b">> ELSE <<"b", "a">>]
Orders == {<<"a", "b">>, <<"b", "a">>}

First(t) == order[t][1]
Second(t) == order[t][2]
Other(t) == 3 - t

\* lock_a = threading.Lock() ; lock_b = threading.Lock() ; no thread yet
LockInit(o) ==
    /\ order = o
    /\ held = [l \in Locks |-> NoOwner]
    /\ tpc = [t \in Tasks |-> "none"]
    /\ dout = <<>>
    /\ timedOut = [t \in Tasks |-> {}]
    /\ dpc = "create"
    /\ di = 1

\* Mutant: an acquire never finds the lock taken.
LockFreeAlways(l) == TRUE

LockFree(l) == held[l] = NoOwner

\* the locks task t has printed "acquired" for
Got(t) == {l \in Locks : \E i \in 1..Len(dout) : dout[i] = <<t, "acquired", l>>}

\* Mutant: the release is forgotten.
AfterReleaseKept(t, l) == held

\* Mutant: the release is skipped on the path where an acquire timed out.
AfterReleaseUnlessTimedOut(t, l) ==
    IF timedOut[t] # {} THEN held ELSE [held EXCEPT ![l] = NoOwner]

\* The locks after task t leaves the with block (finally: release) of lock l.
AfterRelease(t, l) == [held EXCEPT ![l] = NoOwner]

\* `with lock_a:` (task1) / `with lock_b:` (task2) -- blocks until free
AcquireFirst(t) ==
    /\ tpc[t] = "acq1"
    /\ LockFree(First(t))
    /\ held' = [held EXCEPT ![First(t)] = t]
    /\ tpc' = [tpc EXCEPT ![t] = "print1"]
    /\ UNCHANGED <<order, dout, timedOut, dpc, di>>
    /\ UNCHANGED NotLock

\* print("Task 1 acquired lock A")
PrintAcquiredFirst(t) ==
    /\ tpc[t] = "print1"
    /\ dout' = Append(dout, <<t, "acquired", First(t)>>)
    /\ tpc' = [tpc EXCEPT ![t] = "import"]
    /\ UNCHANGED <<order, held, timedOut, dpc, di>>
    /\ UNCHANGED NotLock

\* import time (inside the with block)
ImportTime(t) ==
    /\ tpc[t] = "import"
    /\ tpc' = [tpc EXCEPT ![t] = "sleep"]
    /\ UNCHANGED <<order, held, dout, timedOut, dpc, di>>
    /\ UNCHANGED NotLock

\* time.sleep(0.1) -- "makes deadlock more likely": no bound on how far the
\* other task gets meanwhile
SleepHolding(t) ==
    /\ tpc[t] = "sleep"
    /\ tpc' = [tpc EXCEPT ![t] = "waitmsg"]
    /\ UNCHANGED <<order, held, dout, timedOut, dpc, di>>
    /\ UNCHANGED NotLock

\* print("Task 1 waiting for lock B...")
PrintWaiting(t) ==
    /\ tpc[t] = "waitmsg"
    /\ dout' = Append(dout, <<t, "waiting", Second(t)>>)
    /\ tpc' = [tpc EXCEPT ![t] = "acq2"]
    /\ UNCHANGED <<order, held, timedOut, dpc, di>>
    /\ UNCHANGED NotLock

\* `with lock_b:` (task1) / `with lock_a:` (task2) -- blocks until free
AcquireSecond(t) ==
    /\ tpc[t] = "acq2"
    /\ LockFree(Second(t))
    /\ held' = [held EXCEPT ![Second(t)] = t]
    /\ tpc' = [tpc EXCEPT ![t] = "print2"]
    /\ UNCHANGED <<order, dout, timedOut, dpc, di>>
    /\ UNCHANGED NotLock

\* print("Task 1 acquired lock B")
PrintAcquiredSecond(t) ==
    /\ tpc[t] = "print2"
    /\ dout' = Append(dout, <<t, "acquired", Second(t)>>)
    /\ tpc' = [tpc EXCEPT ![t] = "rel2"]
    /\ UNCHANGED <<order, held, timedOut, dpc, di>>
    /\ UNCHANGED NotLock

\* leaving the inner with block
ReleaseSecond(t) ==
    /\ tpc[t] = "rel2"
    /\ held' = AfterRelease(t, Second(t))
    /\ tpc' = [tpc EXCEPT ![t] = "rel1"]
    /\ UNCHANGED <<order, dout, timedOut, dpc, di>>
    /\ UNCHANGED NotLock

\* leaving the outer with block; the task returns
ReleaseFirst(t) ==
    /\ tpc[t] = "rel1"
    /\ held' = AfterRelease(t, First(t))
    /\ tpc' = [tpc EXCEPT ![t] = "done"]
    /\ UNCHANGED <<order, dout, timedOut, dpc, di>>
    /\ UNCHANGED NotLock

\* `if lock_a.acquire(timeout=1):` -- True with the lock, or False when the
\* lock stayed held for the whole timeout; with False the task skips the block
TryAcquireFirst(t) ==
    /\ tpc[t] = "acq1"
    /\ \/ /\ LockFree(First(t))
          /\ held' = [held EXCEPT ![First(t)] = t]
          /\ tpc' = [tpc EXCEPT ![t] = "print1"]
          /\ UNCHANGED timedOut
       \/ /\ ~LockFree(First(t))
          /\ timedOut' = [timedOut EXCEPT ![t] = timedOut[t] \cup {First(t)}]
          /\ tpc' = [tpc EXCEPT ![t] = "done"]
          /\ UNCHANGED held
    /\ UNCHANGED <<order, dout, dpc, di>>
    /\ UNCHANGED NotLock

\* `if lock_b.acquire(timeout=1):` ... `else:` back off
TryAcquireSecond(t) ==
    /\ tpc[t] = "acq2"
    /\ \/ /\ LockFree(Second(t))
          /\ held' = [held EXCEPT ![Second(t)] = t]
          /\ tpc' = [tpc EXCEPT ![t] = "print2"]
          /\ UNCHANGED timedOut
       \/ /\ ~LockFree(Second(t))
          /\ timedOut' = [timedOut EXCEPT ![t] = timedOut[t] \cup {Second(t)}]
          /\ tpc' = [tpc EXCEPT ![t] = "backoff"]
          /\ UNCHANGED held
    /\ UNCHANGED <<order, dout, dpc, di>>
    /\ UNCHANGED NotLock

\* print("Couldn't get lock B, backing off"), then the outer finally
PrintBackoff(t) ==
    /\ tpc[t] = "backoff"
    /\ dout' = Append(dout, <<t, "backoff", Second(t)>>)
    /\ tpc' = [tpc EXCEPT ![t] = "rel1"]
    /\ UNCHANGED <<order, held, timedOut, dpc, di>>
    /\ UNCHANGED NotLock

\* t1 = threading.Thread(target=task1) ; t2 = threading.Thread(target=task2)
LockMainCreate ==
    /\ dpc = "create"
    /\ tpc' = [tpc EXCEPT ![di] = "new"]
    /\ di' = IF di = 2 THEN 1 ELSE di + 1
    /\ dpc' = IF di = 2 THEN "start" ELSE "create"
    /\ UNCHANGED <<order, held, dout, timedOut>>
    /\ UNCHANGED NotLock

\* t1.start() ; t2.start()
LockMainStart ==
    /\ dpc = "start"
    /\ tpc' = [tpc EXCEPT ![di] = "acq1"]
    /\ di' = IF di = 2 THEN 1 ELSE di + 1
    /\ dpc' = IF di = 2 THEN "join" ELSE "start"
    /\ UNCHANGED <<order, held, dout, timedOut>>
    /\ UNCHANGED NotLock

\* t1.join() ; t2.join() ; print("Both tasks completed")
LockMainJoin ==
    /\ dpc = "join"
    /\ tpc[di] = "done"
    /\ di' = IF di = 2 THEN di ELSE di + 1
    /\ dpc' = IF di = 2 THEN "print" ELSE "join"
    /\ UNCHANGED <<order, held, tpc, dout, timedOut>>
    /\ UNCHANGED NotLock

\* print("Both tasks completed")
LockMainPrint ==
    /\ dpc = "print"
    /\ dout' = Append(dout, <<0, "completed", "">>)
    /\ dpc' = "completed"
    /\ UNCHANGED <<order, held, tpc, timedOut, di>>
    /\ UNCHANGED NotLock

\* What task1 / task2 do apart from acquiring.
TaskCommon(t) ==
    \/ PrintAcquiredFirst(t)
    \/ ImportTime(t)
    \/ SleepHolding(t)
    \/ PrintWaiting(t)
    \/ PrintAcquiredSecond(t)
    \/ ReleaseSecond(t)
    \/ ReleaseFirst(t)

TaskBlocking(t) ==
    \/ AcquireFirst(t)
    \/ AcquireSecond(t)
    \/ TaskCommon(t)

TaskTimed(t) ==
    \/ TryAcquireFirst(t)
    \/ TryAcquireSecond(t)
    \/ PrintBackoff(t)
    \/ TaskCommon(t)

LockMain ==
    \/ LockMainCreate
    \/ LockMainStart
    \/ LockMainJoin
    \/ LockMainPrint

\* 10_deadlock.py as written
InitDeadlock == CounterIdle /\ LockInit(ScriptOrder) /\ JoinIdle /\ AioIdle /\ PoolIdle /\ LifeIdle /\ ProcIdle

NextDeadlock ==
    \/ \E t \in Tasks : TaskBlocking(t)
    \/ LockMain

SpecDeadlock == InitDeadlock /\ [][NextDeadlock]_vars

\* remedy 2, LOCK TIMEOUT, on both sides.  A runnable thread is eventually
\* run and a timed acquire eventually returns.
NextTimed ==
    \/ \E t \in Tasks : TaskTimed(t)
    \/ LockMain

SpecTimed ==
    /\ InitDeadlock
    /\ [][NextTimed]_vars
    /\ \A t \in Tasks : WF_vars(TaskTimed(t))
    /\ WF_vars(LockMain)

\* every pair of acquisition orders, remedy 1 (CONSISTENT LOCK ORDERING)
\* among them, with blocking acquires.  A runnable thread is eventually run.
InitOrder ==
    /\ CounterIdle
    /\ JoinIdle
    /\ AioIdle
    /\ PoolIdle
    /\ LifeIdle
    /\ ProcIdle
    /\ \E o \in [Tasks -> Orders] : LockInit(o)

SpecOrder ==
    /\ InitOrder
    /\ [][NextDeadlock]_vars
    /\ \A t \in Tasks : WF_vars(TaskBlocking(t))
    /\ WF_vars(LockMain)

(***************************************************************************)
(* Properties of the two-lock scripts                                      *)
(***************************************************************************)
\* each task holds its first lock and is blocked acquiring its second, which
\* the other task holds
CircularWait ==
    \A t \in Tasks : /\ tpc[t] = "acq2"
                     /\ held[First(t)] = t
                     /\ held[Second(t)] = Other(t)

\* lock l1 comes before lock l2 in the acquisition order o
Before(o, l1, l2) ==
    \E i, j \in 1..Len(o) : i < j /\ o[i] = l1 /\ o[j] = l2

\* the two tasks acquire the same two locks in inconsistent relative order
\* ("acquiring multiple locks in DIFFERENT ORDERS")
InconsistentOrder ==
    \E l1, l2 \in Locks :
        l1 # l2 /\ Before(order[1], l1, l2) /\ Before(order[2], l2, l1)

\* C6: 10_deadlock.py must hang: no "acquired" message for a second lock is
\* ever printed, no join returns, and "Both tasks completed" is never reached.
C6_MustHang ==
    /\ \A t \in Tasks : Second(t) \notin Got(t)
    /\ ~(dpc = "join" /\ di = 2)
    /\ dpc \notin {"print", "completed"}

\* C7 as stated: with timed acquires on both sides, a task that fails its
\* second acquire with a timeout lets the other task acquire both locks.
C7_Original ==
    \A t \in Tasks :
        (dpc = "completed" /\ Second(t) \in timedOut[t]) => Got(Other(t)) = Locks

\* C7 amended: with timed acquires on both sides, from the circular wait the
\* next thing to happen is that a task fails its second acquire with a
\* timeout; a task that ends holds no lock, whether it timed out or not; no
\* state other than the end of the program is without a next step, and the
\* program always reaches "Both tasks completed", each task having acquired
\* both locks or timed out.
C7_TimeoutBreaksWait ==
    /\ [][CircularWait =>
            \E t \in Tasks : Second(t) \in timedOut'[t] /\ tpc'[t] = "backoff"]_vars
    /\ [](\A t \in Tasks : tpc[t] = "done" => \A l \in Locks : held[l] # t)
    /\ [](dpc = "completed" \/ ENABLED NextTimed)
    /\ [](dpc = "completed" =>
            \A t \in Tasks : Got(t) = Locks \/ timedOut[t] # {})
    /\ <>(dpc = "completed")

\* one task timed out on its second lock and backed off, the other then
\* acquired both locks
C7_Witness ==
    \E t \in Tasks : /\ dpc = "completed"
                     /\ Second(t) \in timedOut[t]
                     /\ Got(Other(t)) = Locks
                     /\ timedOut[Other(t)] = {}

\* C8: a circular wait is reachable only when the two tasks acquire the two
\* locks in inconsistent relative order; when both use the same order, both
\* tasks complete under fair scheduling.
C8_ConsistentOrderSafe ==
    /\ [](CircularWait => InconsistentOrder)
    /\ (~InconsistentOrder => <>(dpc = "completed"))

\* same order on both sides, one task made to wait for the first lock while
\* the other holds both
C8_Witness ==
    \E t \in Tasks : /\ order[1] = order[2]
                     /\ tpc[t] = "acq1"
                     /\ held[First(t)] = Other(t)
                     /\ held[Second(t)] = Other(t)

(***************************************************************************)
(* Start-all / join-all scripts whose workers only wait.  Time is counted  *)
(* in whole units (seconds); a statement other than a sleep takes no time, *)
(* so the clock advances only when every started worker is asleep and the  *)
(* main flow is blocked in a join.                                         *)
(***************************************************************************)
MaxWait == 3

\* boil_milk: sleep(2) ; toast_bun: sleep(3)                  (05_thread_one.py)
Breakfast == <<(<<2>>), (<<3>>)>>
\* take_orders: 3 x sleep(2) ; brew_chai: 3 x sleep(3)        (01_threading.py)
ChaiShop == <<(<<2, 2, 2>>), (<<3, 3, 3>>)>>
\* three chai makers, sleep(3) each                      (02_multiprocessing.py)
ChaiMakers == <<(<<3>>), (<<3>>), (<<3>>)>>
\* three workers waiting 2, 3 and 1
Durations231 == <<(<<2>>), (<<3>>), (<<1>>)>>
\* three downloads, each taking some time of its own    (07_thread_download.py)
Downloads == {<<(<<a>>), (<<b>>), (<<c>>)>> : a, b, c \in 1..MaxWait}

Scenarios == {Breakfast, ChaiShop, ChaiMakers, Durations231} \cup Downloads

JWorkers == 1..Len(waits)

\* no script starts more than three workers (urls, chai_makers)
MostWorkers == 3

RECURSIVE SumSeq(_)
SumSeq(q) == IF q = <<>> THEN 0 ELSE Head(q) + SumSeq(Tail(q))

\* the thread objects are created, none is started
JoinInit ==
    /\ waits \in Scenarios
    /\ wst = [w \in 1..Len(waits) |-> "new"]
    /\ wk = [w \in 1..Len(waits) |-> 1]
    /\ rem = [w \in 1..Len(waits) |-> 0]
    /\ finish = [w \in 1..Len(waits) |-> 0]
    /\ now = 0
    /\ jpc = "begin"
    /\ ji = 1
    /\ tstart = 0
    /\ tend = 0

\* Mutant: the target runs whether or not start() was called.
BeginSleepUnstarted(w) ==
    /\ w \in JWorkers
    /\ wst[w] \in {"new", "ready"}
    /\ wst' = [wst EXCEPT ![w] = "sleeping"]
    /\ rem' = [rem EXCEPT ![w] = waits[w][wk[w]]]
    /\ UNCHANGED <<waits, wk, finish, now, jpc, ji, tstart, tend>>
    /\ UNCHANGED NotJoin

\* print(...) ; time.sleep(d) -- the worker goes to sleep for d
BeginSleep(w) ==
    /\ w \in JWorkers
    /\ wst[w] = "ready"
    /\ wst' = [wst EXCEPT ![w] = "sleeping"]
    /\ rem' = [rem EXCEPT ![w] = waits[w][wk[w]]]
    /\ UNCHANGED <<waits, wk, finish, now, jpc, ji, tstart, tend>>
    /\ UNCHANGED NotJoin

\* the sleep is over: next iteration, or the target returns and the worker
\* has completed
WakeUp(w) ==
    /\ w \in JWorkers
    /\ wst[w] = "sleeping"
    /\ rem[w] = 0
    /\ wk' = [wk EXCEPT ![w] = wk[w] + 1]
    /\ wst' = [wst EXCEPT ![w] = IF wk[w] = Len(waits[w]) THEN "completed" ELSE "ready"]
    /\ finish' = [finish EXCEPT ![w] = IF wk[w] = Len(waits[w]) THEN now ELSE finish[w]]
    /\ UNCHANGED <<waits, rem, now, jpc, ji, tstart, tend>>
    /\ UNCHANGED NotJoin

\* Mutant: a failing download takes the other downloads down with it.
RequestFailsStopsAll(w) ==
    /\ w \in JWorkers
    /\ waits \in Downloads
    /\ wst[w] = "sleeping"
    /\ rem[w] > 0
    /\ wst' = [v \in JWorkers |-> "raised"]
    /\ rem' = [v \in JWorkers |-> 0]
    /\ finish' = [v \in JWorkers |-> now]
    /\ UNCHANGED <<waits, wk, now, jpc, ji, tstart, tend>>
    /\ UNCHANGED NotJoin

\* resp = requests.get(url) raises while download waits for the server
\* (download has no try/except): the exception leaves the target, the thread
\* ends, and the last print of download is not reached.
RequestFails(w) ==
    /\ w \in JWorkers
    /\ waits \in Downloads
    /\ wst[w] = "sleeping"
    /\ rem[w] > 0
    /\ wst' = [wst EXCEPT ![w] = "raised"]
    /\ rem' = [rem EXCEPT ![w] = 0]
    /\ finish' = [finish EXCEPT ![w] = now]
    /\ UNCHANGED <<waits, wk, now, jpc, ji, tstart, tend>>
    /\ UNCHANGED NotJoin

\* Mutant: only one sleeper at a time makes progress (the waits do not overlap).
RemainingAfterTickOneAtATime(w) ==
    IF wst[w] = "sleeping" /\ \A v \in 1..(w - 1) : wst[v] # "sleeping"
    THEN rem[w] - 1 ELSE rem[w]

\* What is left of worker w's sleep after one unit of time: every sleeping
\* worker's wait runs down together.
RemainingAfterTick(w) == IF wst[w] = "sleeping" THEN rem[w] - 1 ELSE rem[w]

\* Mutant: join returns only for a worker whose target returned.
JoinDoneCompletedOnly(w) == wst[w] = "completed"

\* Mutant: join returns without waiting.
JoinDoneAtOnce(w) == TRUE

\* t.join() / p.join() returns once worker w has ended: its target has
\* returned, or has raised (join() does not report how the thread ended).
JoinDone(w) == wst[w] \in {"completed", "raised"}

\* One unit of time passes: nothing else can run (the main flow is blocked
\* in a join, every worker sleeps, has ended or is not started yet).
Tick ==
    /\ jpc \in {"join", "sjoin"}
    /\ ~JoinDone(ji)
    /\ \A w \in JWorkers : \/ wst[w] = "sleeping" /\ rem[w] > 0
                           \/ wst[w] \in {"new", "completed", "raised"}
    /\ now' = now + 1
    /\ rem' = [w \in JWorkers |-> RemainingAfterTick(w)]
    /\ UNCHANGED <<waits, wst, wk, finish, jpc, ji, tstart, tend>>
    /\ UNCHANGED NotJoin

\* start = time.time()
JoinMainBegin ==
    /\ jpc = "begin"
    /\ tstart' = now
    /\ jpc' = "start"
    /\ UNCHANGED <<waits, wst, wk, rem, finish, now, ji, tend>>
    /\ UNCHANGED NotJoin

\* t1.start() ; t2.start() / for p in chai_makers: p.start()
JoinMainStart ==
    /\ jpc = "start"
    /\ wst' = [wst EXCEPT ![ji] = "ready"]
    /\ ji' = IF ji = Len(waits) THEN 1 ELSE ji + 1
    /\ jpc' = IF ji = Len(waits) THEN "join" ELSE "start"
    /\ UNCHANGED <<waits, wk, rem, finish, now, tstart, tend>>
    /\ UNCHANGED NotJoin

\* t1.join() ; t2.join() / for p in chai_makers: p.join()
JoinMainJoin ==
    /\ jpc = "join"
    /\ JoinDone(ji)
    /\ ji' = IF ji = Len(waits) THEN ji ELSE ji + 1
    /\ jpc' = IF ji = Len(waits) THEN "end" ELSE "join"
    /\ UNCHANGED <<waits, wst, wk, rem, finish, now, tstart, tend>>
    /\ UNCHANGED NotJoin

\* end = time.time() ; print(f"... ready in {end - start:.2f} seconds!")
JoinMainEnd ==
    /\ jpc = "end"
    /\ tend' = now
    /\ jpc' = "after"
    /\ UNCHANGED <<waits, wst, wk, rem, finish, now, ji, tstart>>
    /\ UNCHANGED NotJoin

JoinWorker(w) ==
    \/ BeginSleep(w)
    \/ WakeUp(w)

JoinMain ==
    \/ JoinMainBegin
    \/ JoinMainStart
    \/ JoinMainJoin
    \/ JoinMainEnd

InitJoin == CounterIdle /\ LockIdle /\ JoinInit /\ AioIdle /\ PoolIdle /\ LifeIdle /\ ProcIdle

NextJoin ==
    \/ \E w \in 1..MostWorkers : JoinWorker(w)
    \/ JoinMain
    \/ Tick

SpecJoin == InitJoin /\ [][NextJoin]_vars

\* 07_thread_download.py with requests that can fail.  A runnable thread is
\* eventually run and time passes; nothing forces a request to fail.
NextJoinFault ==
    \/ NextJoin
    \/ \E w \in 1..MostWorkers : RequestFails(w)

SpecJoinFault == InitJoin /\ [][NextJoinFault]_vars /\ WF_vars(NextJoin)

(***************************************************************************)
(* Properties of the start-all / join-all scripts                          *)
(***************************************************************************)
MaxOf(S) == CHOOSE x \in S : \A y \in S : y <= x

\* the longest of the workers' total waits, and their sum
LongestWait == MaxOf({SumSeq(waits[w]) : w \in JWorkers})
SumOfWaits == SumSeq([w \in JWorkers |-> SumSeq(waits[w])])

\* C9: the statement after the join loop is reached only when every started
\* worker has completed, never while one is still running, and at the very
\* moment the last of them completes.
C9_JoinAllWaitsForAll ==
    /\ (jpc \in {"end", "after"} =>
          /\ \A w \in JWorkers : wst[w] = "completed"
          /\ now = MaxOf({finish[w] : w \in JWorkers}))
    /\ (jpc = "after" => tend = MaxOf({finish[w] : w \in JWorkers}))

\* the join loop has returned although the worker joined last was not the
\* last to complete
C9_Witness ==
    /\ jpc = "after"
    /\ \E w \in JWorkers : finish[w] > finish[Len(waits)]

\* C10: with workers that only wait, start-all then join-all takes exactly
\* the longest of the workers' total waits, not their sum: 3 for waits of
\* 2, 3 and 1; 3 and not 5 for boil_milk / toast_bun; 9 and not 15 for
\* take_orders / brew_chai.
C10_ElapsedIsLongestWait ==
    jpc = "after" =>
        /\ tend - tstart = LongestWait
        /\ tend - tstart < SumOfWaits
        /\ (waits = Durations231 => tend - tstart = 3)
        /\ (waits = Breakfast => (tend - tstart = 3 /\ SumOfWaits = 5))
        /\ (waits = ChaiShop => (tend - tstart = 9 /\ SumOfWaits = 15))

C10_Witness == jpc = "after" /\ waits = ChaiShop /\ tend - tstart = 9

(***************************************************************************)
(* Coroutines on the event loop (01_async_one.py, 02_async_two.py)         *)
(*                                                                         *)
(* One thread runs the loop.  The loop takes the first task of its ready   *)
(* queue and runs it, statement by statement, until the task awaits or     *)
(* returns; when the queue is empty it sleeps until the earliest timer.    *)
(* Statements take no time; only the simulated waits do.                   *)
(***************************************************************************)
\* the longest simulated wait (sleep(1), sleep(2), sleep(3) in the scripts)
MaxNap == 3

Brews == 1..Len(durs)

\* the coroutine handed to asyncio.run: main(), or brew_chai() itself
Root == IF gathered THEN 0 ELSE 1

\* the root coroutine object exists, asyncio.run has not been called
AioInit ==
    /\ gathered \in BOOLEAN
    /\ blocking \in BOOLEAN
    /\ durs \in [1..(IF gathered THEN NBrews ELSE 1) -> 1..MaxNap]
    /\ ast = [t \in AllTasks |-> "NONE"]
    /\ apc = [t \in AllTasks |-> "none"]
    /\ ready = <<>>
    /\ timers = <<>>
    /\ anow = 0
    /\ aout = <<>>
    /\ res = [t \in AllTasks |-> <<>>]
    /\ gfut = [st |-> "none", val |-> <<>>]
    /\ rpc = "before"
    /\ astart = 0
    /\ aend = 0

\* asyncio.run(coro): the root becomes a task, scheduled to run
RunStart ==
    /\ rpc = "before"
    /\ rpc' = "running"
    /\ ast' = [ast EXCEPT ![Root] = "PENDING"]
    /\ apc' = [apc EXCEPT ![Root] = IF gathered THEN "gather" ELSE "start"]
    /\ ready' = <<Root>>
    /\ UNCHANGED <<durs, blocking, gathered, timers, anow, aout, res, gfut,
                   astart, aend>>
    /\ UNCHANGED NotAio

\* the loop's thread is between two tasks
LoopFreeAlways == TRUE

LoopFree == \A t \in AllTasks : ast[t] # "RUNNING"

\* the loop runs the next handle of its ready queue
Dispatch ==
    /\ rpc = "running"
    /\ LoopFree
    /\ ready # <<>>
    /\ ast[Head(ready)] \in {"PENDING", "SUSPENDED"}
    /\ ast' = [ast EXCEPT ![Head(ready)] = "RUNNING"]
    /\ ready' = Tail(ready)
    /\ UNCHANGED <<durs, blocking, gathered, apc, timers, anow, aout, res,
                   gfut, rpc, astart, aend>>
    /\ UNCHANGED NotAio

\* print(f"Brewing {name}...")
BrewPrintStart(t) ==
    /\ t \in Brews
    /\ ast[t] = "RUNNING"
    /\ apc[t] = "start"
    /\ aout' = Append(aout, <<"start", t>>)
    /\ apc' = [apc EXCEPT ![t] = "sleep"]
    /\ UNCHANGED <<durs, blocking, gathered, ast, ready, timers, anow, res,
                   gfut, rpc, astart, aend>>
    /\ UNCHANGED NotAio

\* when the timer of a sleep that starts now is due
WakeAtAfterOthers(t) ==
    (IF timers = <<>> THEN anow ELSE timers[Len(timers)][2]) + durs[t]

WakeAt(t) == anow + durs[t]

\* await asyncio.sleep(d): a timer is set and the task gives the thread back
BrewAwaitSleep(t) ==
    /\ t \in Brews
    /\ ~blocking
    /\ ast[t] = "RUNNING"
    /\ apc[t] = "sleep"
    /\ timers' = Append(timers, <<t, WakeAt(t)>>)
    /\ ast' = [ast EXCEPT ![t] = "SUSPENDED"]
    /\ apc' = [apc EXCEPT ![t] = "ready"]
    /\ UNCHANGED <<durs, blocking, gathered, ready, anow, aout, res, gfut,
                   rpc, astart, aend>>
    /\ UNCHANGED NotAio

\* time.sleep(d): the thread itself sleeps, the task keeps it
BrewBlockingSleep(t) ==
    /\ t \in Brews
    /\ blocking
    /\ ast[t] = "RUNNING"
    /\ apc[t] = "sleep"
    /\ anow' = anow + durs[t]
    /\ apc' = [apc EXCEPT ![t] = "ready"]
    /\ UNCHANGED <<durs, blocking, gathered, ast, ready, timers, aout, res,
                   gfut, rpc, astart, aend>>
    /\ UNCHANGED NotAio

\* return f"Data for {id}" -- the value a brew hands to gather (brew itself
\* returns None three times, which would hide the order of the list)
Returned(t) == <<"Data for", t>>

\* (the list in the order in which the brews finish when none blocks:
\* shortest wait first, equal waits in the order they were passed in)
GatherResultAsFinished(r) ==
    LET FinishRank(i) ==
            Cardinality({j \in Brews :
                            durs[j] < durs[i] \/ (durs[j] = durs[i] /\ j <= i)})
    IN  [k \in Brews |-> r[CHOOSE i \in Brews : FinishRank(i) = k]]

\* gather's result: the children's results, in the order of its arguments
GatherResult(r) == [i \in Brews |-> r[i]]

\* print(f"{name} is ready!") and the coroutine returns.  When the last
\* child of gather is done, gather's future gets its result and main() is
\* scheduled again.
BrewFinish(t) ==
    /\ t \in Brews
    /\ ast[t] = "RUNNING"
    /\ apc[t] = "ready"
    /\ aout' = Append(aout, <<"ready", t>>)
    /\ ast' = [ast EXCEPT ![t] = "DONE"]
    /\ apc' = [apc EXCEPT ![t] = "end"]
    /\ res' = [res EXCEPT ![t] = Returned(t)]
    /\ IF gfut.st = "pending" /\ \A u \in Brews \ {t} : ast[u] = "DONE"
       THEN /\ gfut' = [st |-> "result", val |-> GatherResult(res')]
            /\ ready' = Append(ready, 0)
       ELSE UNCHANGED <<gfut, ready>>
    /\ UNCHANGED <<durs, blocking, gathered, timers, anow, rpc, astart, aend>>
    /\ UNCHANGED NotAio

\* main(): start = time.time(); await asyncio.gather(brew(..), brew(..),
\* brew(..)) -- every argument becomes a task, scheduled in argument order
MainBegin ==
    /\ ast[0] = "RUNNING"
    /\ apc[0] = "gather"
    /\ astart' = anow
    /\ ast' = [t \in AllTasks |->
                 IF t \in Brews THEN "PENDING"
                 ELSE IF t = 0 THEN "SUSPENDED" ELSE ast[t]]
    /\ apc' = [t \in AllTasks |->
                 IF t \in Brews THEN "start"
                 ELSE IF t = 0 THEN "after" ELSE apc[t]]
    /\ ready' = ready \o [i \in Brews |-> i]
    /\ gfut' = [st |-> "pending", val |-> <<>>]
    /\ UNCHANGED <<durs, blocking, gathered, timers, anow, aout, res, rpc, aend>>
    /\ UNCHANGED NotAio

\* main() after the await: end = time.time(); print(...); or the exception
\* gather raised leaves main()
MainEnd ==
    /\ ast[0] = "RUNNING"
    /\ apc[0] = "after"
    /\ apc' = [apc EXCEPT ![0] = "end"]
    /\ IF gfut.st = "result"
       THEN /\ aend' = anow
            /\ aout' = Append(aout, <<"all ready", 0>>)
            /\ ast' = [ast EXCEPT ![0] = "DONE"]
       ELSE /\ ast' = [ast EXCEPT ![0] = "FAILED"]
            /\ UNCHANGED <<aend, aout>>
    /\ UNCHANGED <<durs, blocking, gathered, ready, timers, anow, res, gfut,
                   rpc, astart>>
    /\ UNCHANGED NotAio

\* the root is finished
RootEndedAtOnce == TRUE

RootEnded == ast[Root] \in {"DONE", "FAILED"}

\* nothing is ready: the loop sleeps until the earliest timer, then
\* schedules every task whose timer is due.  Once the root is finished the
\* loop stops instead of sleeping.
TimerFire ==
    /\ rpc = "running"
    /\ LoopFree
    /\ ~RootEnded
    /\ ready = <<>>
    /\ timers # <<>>
    /\ LET first == CHOOSE d \in {timers[k][2] : k \in DOMAIN timers} :
                        \A k \in DOMAIN timers : d <= timers[k][2]
           wake == IF first > anow THEN first ELSE anow
           IsDue(e) == e[2] <= wake
           NotDue(e) == e[2] > wake
           due == SelectSeq(timers, IsDue)
       IN  /\ anow' = wake
           /\ ready' = [k \in DOMAIN due |-> due[k][1]]
           /\ timers' = SelectSeq(timers, NotDue)
    /\ UNCHANGED <<durs, blocking, gathered, ast, apc, aout, res, gfut, rpc,
                   astart, aend>>
    /\ UNCHANGED NotAio

\* the operation a brew awaits raises instead of completing (a request of
\* fetch_url can): the brew ends with the exception, and gather, called
\* without return_exceptions, hands the first exception to main() at once
AwaitRaises(t) ==
    /\ rpc = "running"
    /\ LoopFree
    /\ t \in Brews
    /\ ast[t] = "SUSPENDED"
    /\ \E k \in DOMAIN timers : timers[k][1] = t
    /\ LET Others(e) == e[1] # t
       IN  timers' = SelectSeq(timers, Others)
    /\ ast' = [ast EXCEPT ![t] = "FAILED"]
    /\ apc' = [apc EXCEPT ![t] = "end"]
    /\ IF gfut.st = "pending"
       THEN /\ gfut' = [st |-> "exception", val |-> <<>>]
            /\ ready' = Append(ready, 0)
       ELSE UNCHANGED <<gfut, ready>>
    /\ UNCHANGED <<durs, blocking, gathered, anow, aout, res, rpc, astart, aend>>
    /\ UNCHANGED NotAio

\* what cancelling does to a task in state st: nothing once it is finished
CancelledWhateverState(st) == IF st = "NONE" THEN st ELSE "FAILED"

Cancelled(st) == IF st \in {"PENDING", "SUSPENDED"} THEN "FAILED" ELSE st

\* asyncio.run returns (or raises what the root raised); before it does it
\* cancels every task that is left
RunReturn ==
    /\ rpc = "running"
    /\ LoopFree
    /\ RootEnded
    /\ rpc' = IF ast[Root] = "FAILED" THEN "raised" ELSE "returned"
    /\ ast' = [t \in AllTasks |-> Cancelled(ast[t])]
    /\ ready' = <<>>
    /\ timers' = <<>>
    /\ UNCHANGED <<durs, blocking, gathered, apc, anow, aout, res, gfut,
                   astart, aend>>
    /\ UNCHANGED NotAio

\* print("Async program completed!") -- the statement after asyncio.run
PrintCompleted ==
    /\ rpc = "returned"
    /\ ~gathered
    /\ rpc' = "done"
    /\ aout' = Append(aout, <<"completed", 0>>)
    /\ UNCHANGED <<durs, blocking, gathered, ast, apc, ready, timers, anow,
                   res, gfut, astart, aend>>
    /\ UNCHANGED NotAio

\* brew, the failure of what it awaits, main(), the loop, module level
NextAio ==
    \/ \E t \in 1..NBrews : BrewPrintStart(t)
    \/ \E t \in 1..NBrews : BrewAwaitSleep(t)
    \/ \E t \in 1..NBrews : BrewBlockingSleep(t)
    \/ \E t \in 1..NBrews : BrewFinish(t)
    \/ \E t \in 1..NBrews : AwaitRaises(t)
    \/ MainBegin
    \/ MainEnd
    \/ Dispatch
    \/ TimerFire
    \/ RunStart
    \/ RunReturn
    \/ PrintCompleted

InitAio == CounterIdle /\ LockIdle /\ JoinIdle /\ AioInit /\ PoolIdle /\ LifeIdle /\ ProcIdle

SpecAsync == InitAio /\ [][NextAio]_vars

(***************************************************************************)
(* Properties of the coroutine scripts                                     *)
(***************************************************************************)
\* C11: when main() gathers brews that wait with await, every brew has
\* printed its start line before any brew prints its ready line, and the
\* time main() measures around the gather is the longest of the waits, not
\* their sum: three waits of 3 take 3, not 9.
C11_GatheredWaitsOverlap ==
    (gathered /\ ~blocking) =>
        /\ \A k, m \in DOMAIN aout :
              (aout[k][1] = "ready" /\ aout[m][1] = "start") => m < k
        /\ \A k \in DOMAIN aout :
              aout[k][1] = "ready" =>
                  \A t \in Brews : \E m \in 1..(k-1) : aout[m] = <<"start", t>>
        /\ (ast[0] = "DONE" =>
              /\ aend - astart = MaxOf({durs[t] : t \in Brews})
              /\ (durs = <<3, 3, 3>> => (aend - astart = 3 /\ SumSeq(durs) = 9)))

C11_Witness ==
    /\ gathered /\ ~blocking
    /\ durs = <<3, 3, 3>>
    /\ ast[0] = "DONE"
    /\ aend - astart = 3
    /\ Len(aout) = 7

C13_Original ==
    rpc = "running" => Cardinality({t \in AllTasks : ast[t] = "RUNNING"}) = 1

\* C13, amended: at most one task is RUNNING in every reachable state, so no
\* two coroutines execute at once, and the task that runs is neither in the
\* ready queue nor waiting on a timer.  (While every unfinished task waits
\* for its timer, and between two tasks, no task is RUNNING.)
C13_AtMostOneRunning ==
    /\ Cardinality({t \in AllTasks : ast[t] = "RUNNING"}) <= 1
    /\ \A t \in AllTasks :
          ast[t] = "RUNNING" =>
              /\ \A k \in DOMAIN ready : ready[k] # t
              /\ \A k \in DOMAIN timers : timers[k][1] # t

C13_Witness ==
    /\ ast[2] = "RUNNING"
    /\ ast[1] = "SUSPENDED"
    /\ ast[3] = "PENDING"
    /\ ast[0] = "SUSPENDED"

\* C14: a task changes state only along PENDING -> RUNNING,
\* RUNNING -> SUSPENDED, SUSPENDED -> RUNNING, RUNNING -> DONE or FAILED,
\* SUSPENDED -> FAILED; it is PENDING when created, and no task leaves DONE
\* or FAILED.
C14_TaskStateMachine ==
    [][\A t \in AllTasks :
          ast'[t] # ast[t] =>
              <<ast[t], ast'[t]>> \in
                  { <<"NONE", "PENDING">>, <<"PENDING", "RUNNING">>,
                    <<"RUNNING", "SUSPENDED">>, <<"SUSPENDED", "RUNNING">>,
                    <<"RUNNING", "DONE">>, <<"RUNNING", "FAILED">>,
                    <<"SUSPENDED", "FAILED">> }]_vars

C14_Witness ==
    /\ ast[1] = "DONE"
    /\ ast[2] = "FAILED"
    /\ ast[3] = "SUSPENDED"
    /\ ast[0] = "RUNNING"

\* C15: a task gives up the thread only at an await.  With the blocking
\* sleep in brew no brew is ever suspended and no timer is set, the line
\* after a brew's start line is that brew's ready line, and the time main()
\* measures is the sum of the waits: 9 for three waits of 3, not 3.
C15_BlockingSleepStarves ==
    /\ []((gathered /\ blocking) =>
            /\ timers = <<>>
            /\ \A t \in Brews : ast[t] # "SUSPENDED"
            /\ \A k \in DOMAIN aout :
                  (aout[k][1] = "start" /\ k < Len(aout)) =>
                      aout[k+1] = <<"ready", aout[k][2]>>
            /\ (ast[0] = "DONE" =>
                  /\ aend - astart = SumSeq(durs)
                  /\ (durs = <<3, 3, 3>> => aend - astart = 9)))
    /\ [][\A t \in AllTasks :
            (ast[t] = "RUNNING" /\ ast'[t] = "SUSPENDED") =>
                (~blocking /\ apc[t] = "sleep") \/ apc[t] = "gather"]_vars

C15_Witness ==
    /\ gathered /\ blocking
    /\ durs = <<3, 3, 3>>
    /\ ast[0] = "DONE"
    /\ aend - astart = 9
    /\ aout = << <<"start", 1>>, <<"ready", 1>>, <<"start", 2>>, <<"ready", 2>>,
                 <<"start", 3>>, <<"ready", 3>>, <<"all ready", 0>> >>

\* C16: asyncio.run is left only when the root is DONE (it returns) or
\* FAILED (it raises), and then no task is unfinished.  The statement after
\* asyncio.run prints after every line of the root; in main() the statement
\* after the await of gather prints after every line of every brew.
C16_RunReturnsAfterRoot ==
    /\ (rpc \in {"returned", "done"} => ast[Root] = "DONE")
    /\ (rpc = "raised" => ast[Root] = "FAILED")
    /\ (rpc \in {"returned", "raised", "done"} =>
          \A t \in AllTasks : ast[t] \in {"NONE", "DONE", "FAILED"})
    /\ \A k \in DOMAIN aout :
          aout[k][1] = "completed" =>
              /\ k = Len(aout)
              /\ aout = << <<"start", 1>>, <<"ready", 1>>, <<"completed", 0>> >>
    /\ \A k \in DOMAIN aout :
          aout[k][1] = "all ready" =>
              /\ k = Len(aout)
              /\ \A t \in Brews :
                    \E i, j \in 1..(k-1) :
                        i < j /\ aout[i] = <<"start", t>> /\ aout[j] = <<"ready", t>>

C16_Witness ==
    /\ rpc = "done"
    /\ ast[Root] = "DONE"
    /\ aout = << <<"start", 1>>, <<"ready", 1>>, <<"completed", 0>> >>

(***************************************************************************)
(* Blocking calls handed to a pool (04_thread_async.py,                    *)
(* 05_process_async.py)                                                    *)
(*                                                                         *)
(* main() submits a blocking call to a pool with loop.run_in_executor and  *)
(* awaits it; 04_thread_async.py also shows three calls submitted and      *)
(* gathered.  A string is a sequence of characters.                        *)
(***************************************************************************)
\* the longest string handed to encrypt
MaxLen == 2

\* time.sleep(3) in check_stock
StockNap == 3

\* ThreadPoolExecutor(): at least five workers (min(32, cpus + 4))
PoolWorkers == 5

\* ProcessPoolExecutor() has as many workers as the machine has processors;
\* the model runs it on machines of 1 to MaxCpu processors
MaxCpu == 2

Strings == UNION {[1..n -> {"1", "c"}] : n \in 0..MaxLen}

\* the items checked: one call, or the three gathered calls
Items == { << <<"Masala chai">> >>,
           << <<"Masala">>, <<"Ginger">>, <<"Green">> >> }

\* the calls gathered at once: three (04_thread_async.py lines 159-161;
\* 05_process_async.py lines 148-156 gathers four)
MostCalls == 3

Calls == 1..Len(eargs)

PoolInit ==
    /\ ekind \in {"thread", "process"}
    /\ ncpu \in 1..MaxCpu
    /\ IF ekind = "thread"
       THEN ncpu = 1 /\ eargs \in Items
       ELSE eargs \in {<<d>> : d \in Strings}
                         \cup [1..MostCalls -> {<<"1">>, <<"c">>}]
    /\ est = [c \in 1..Len(eargs) |-> "none"]
    /\ edue = [c \in 1..Len(eargs) |-> 0]
    /\ wire = [c \in 1..Len(eargs) |-> <<>>]
    /\ evalue = [c \in 1..Len(eargs) |-> <<>>]
    /\ epc = "begin"
    /\ enow = 0
    /\ eout = <<>>
    /\ estart = 0
    /\ eend = 0

\* return f"... {item} stock: 42 units available"
check_stock(item) == <<"stock of">> \o item \o <<"42 units available">>

\* encrypted = data[::-1]; return f"(lock) {encrypted}"
encrypt(data) == <<"locked">> \o [i \in 1..Len(data) |-> data[Len(data) + 1 - i]]

\* what crosses the boundary between two processes is the pickled value:
\* here a frame that starts with the length of the value
Pickle(v) == <<Len(v)>> \o v

UnpickleWholeFrame(f) == f

Unpickle(f) == SubSeq(f, 2, 1 + f[1])

\* a thread pool shares memory: nothing is pickled
Sent(v) == IF ekind = "process" THEN Pickle(v) ELSE v

Received(f) == IF ekind = "process" THEN Unpickle(f) ELSE f

\* main(): start = time.time(); every loop.run_in_executor(pool, f, arg)
\* submits its call; main() awaits the result(s)
ExecSubmit ==
    /\ epc = "begin"
    /\ estart' = enow
    /\ est' = [c \in Calls |-> "submitted"]
    /\ wire' = [c \in Calls |-> Sent(eargs[c])]
    /\ epc' = "await"
    /\ UNCHANGED <<ekind, ncpu, eargs, edue, evalue, enow, eout, eend>>
    /\ UNCHANGED NotPool

\* a worker of the pool is free to take call c
CanStartOneAtATime(c) == \A d \in Calls : est[d] # "sleeping"

\* Mutant: the pool starts a worker for every call.
CanStartAll(c) == TRUE

\* The pool has at most PoolWorkers threads, or ncpu processes; its workers
\* take the calls from its queue in the order they were submitted, so c is
\* taken when the workers that are not inside a call outnumber the calls
\* submitted before c and not yet started.
CanStart(c) ==
    Cardinality({d \in Calls : est[d] = "sleeping"})
      + Cardinality({d \in Calls : d < c /\ est[d] = "submitted"})
        < (IF ekind = "thread" THEN PoolWorkers ELSE ncpu)

\* a worker takes the call and runs the function up to its wait:
\* check_stock prints and sleeps, encrypt does not wait
WorkerCall(c) ==
    /\ c \in Calls
    /\ est[c] = "submitted"
    /\ CanStart(c)
    /\ est' = [est EXCEPT ![c] = "sleeping"]
    /\ IF ekind = "thread"
       THEN /\ eout' = Append(eout, <<"checking", c>>)
            /\ edue' = [edue EXCEPT ![c] = enow + StockNap]
       ELSE /\ edue' = [edue EXCEPT ![c] = enow]
            /\ UNCHANGED eout
    /\ UNCHANGED <<ekind, ncpu, eargs, wire, evalue, epc, enow, estart, eend>>
    /\ UNCHANGED NotPool

\* the function returns in the worker; its result is sent back
WorkerReturn(c) ==
    /\ c \in Calls
    /\ est[c] = "sleeping"
    /\ edue[c] <= enow
    /\ est' = [est EXCEPT ![c] = "returned"]
    /\ wire' = [wire EXCEPT ![c] =
                  Sent(IF ekind = "thread" THEN check_stock(Received(wire[c]))
                                           ELSE encrypt(Received(wire[c])))]
    /\ UNCHANGED <<ekind, ncpu, eargs, edue, evalue, epc, enow, eout, estart, eend>>
    /\ UNCHANGED NotPool

\* the loop's thread sets the result of the future main() awaits
Deliver(c) ==
    /\ c \in Calls
    /\ est[c] = "returned"
    /\ epc = "await"
    /\ est' = [est EXCEPT ![c] = "done"]
    /\ evalue' = [evalue EXCEPT ![c] = Received(wire[c])]
    /\ UNCHANGED <<ekind, ncpu, eargs, edue, wire, epc, enow, eout, estart, eend>>
    /\ UNCHANGED NotPool

\* main() is resumed once every awaited call has its result:
\* result = await ...
ExecResume ==
    /\ epc = "await"
    /\ \A c \in Calls : est[c] = "done"
    /\ epc' = "print"
    /\ UNCHANGED <<ekind, ncpu, eargs, est, edue, wire, evalue, enow, eout, estart, eend>>
    /\ UNCHANGED NotPool

\* print(result); end = time.time()
ExecPrint ==
    /\ epc = "print"
    /\ eout' = eout \o [c \in Calls |-> <<"result", evalue[c]>>]
    /\ eend' = enow
    /\ epc' = "end"
    /\ UNCHANGED <<ekind, ncpu, eargs, est, edue, wire, evalue, enow, estart>>
    /\ UNCHANGED NotPool

\* every thread waits: time passes until the first sleep ends
ExecTick ==
    /\ epc = "await"
    /\ \A c \in Calls : est[c] # "returned"
    /\ \A c \in Calls : est[c] = "submitted" => ~CanStart(c)
    /\ \E c \in Calls : est[c] = "sleeping"
    /\ \A c \in Calls : est[c] = "sleeping" => edue[c] > enow
    /\ enow' = CHOOSE d \in {edue[c] : c \in {b \in Calls : est[b] = "sleeping"}} :
                    \A c \in Calls : est[c] = "sleeping" => d <= edue[c]
    /\ UNCHANGED <<ekind, ncpu, eargs, est, edue, wire, evalue, epc, eout, estart, eend>>
    /\ UNCHANGED NotPool

\* main(), the pool's workers, the loop, time
NextPool ==
    \/ ExecSubmit
    \/ \E c \in 1..MostCalls : WorkerCall(c)
    \/ \E c \in 1..MostCalls : WorkerReturn(c)
    \/ \E c \in 1..MostCalls : Deliver(c)
    \/ ExecResume
    \/ ExecPrint
    \/ ExecTick

InitPool == CounterIdle /\ LockIdle /\ JoinIdle /\ AioIdle /\ PoolInit /\ LifeIdle /\ ProcIdle

\* a worker with a call to take or to finish is eventually run, and so is
\* the loop's thread
SpecExecutor == InitPool /\ [][NextPool]_vars /\ WF_vars(NextPool)

(***************************************************************************)
(* Properties of the pool scripts                                          *)
(***************************************************************************)
\* C17: main() is past its await only when every call it awaited has
\* returned in its worker and been delivered, and the value it gets is what
\* the function returns for the argument main() passed: check_stock's line
\* about the item, or, through the process pool, the characters of the
\* argument in reverse order behind encrypt's prefix.
C17_AwaitedValueIsWorkersResult ==
    /\ (epc \in {"print", "end"} => \A c \in Calls : est[c] = "done")
    /\ \A c \in Calls :
          /\ (est[c] = "done") = (evalue[c] # <<>>)
          /\ (est[c] = "done" /\ ekind = "thread" =>
                evalue[c] = <<"stock of", eargs[c][1], "42 units available">>)
          /\ (est[c] = "done" /\ ekind = "process" =>
                /\ Len(evalue[c]) = 1 + Len(eargs[c])
                /\ evalue[c][1] = "locked"
                /\ \A i \in 1..Len(eargs[c]) :
                      evalue[c][1 + i] = eargs[c][Len(eargs[c]) + 1 - i])
    /\ \A k \in DOMAIN eout :
          eout[k][1] = "result" => \E c \in Calls : eout[k][2] = evalue[c]

C17_Witness ==
    /\ ekind = "process"
    /\ eargs = << <<"1", "c">> >>
    /\ epc = "end"
    /\ evalue = << <<"locked", "c", "1">> >>
    /\ eout = << <<"result", <<"locked", "c", "1">> >> >>

\* C18: while a worker of the pool is inside the blocking call, main() is
\* suspended at its await, so the loop's thread is free; the three gathered
\* calls of 3 units are all inside their wait together, and main() measures
\* 3 units for them, not 9.
C18_LoopThreadFree ==
    /\ \A c \in Calls : est[c] \in {"sleeping", "returned"} => epc = "await"
    /\ (ekind = "thread" /\ enow > estart /\ enow < estart + StockNap =>
          \A c \in Calls : est[c] = "sleeping")
    /\ (ekind = "thread" /\ epc = "end" =>
          /\ eend - estart = StockNap
          /\ (Len(eargs) = 3 => eend - estart < Len(eargs) * StockNap))

C18_Witness ==
    /\ ekind = "thread"
    /\ Len(eargs) = 3
    /\ epc = "end"
    /\ eend - estart = 3

(***************************************************************************)
(* A background thread that loops forever (07_daemon.py, 08_non_daemon.py, *)
(* 06_bgworker.py)                                                         *)
(*                                                                         *)
(* The main flow starts the thread and goes on to its last statement; the  *)
(* interpreter then waits for the threads that are not daemons and exits.  *)
(* Statements take no time; time passes only while every thread waits.     *)
(***************************************************************************)
\* how many of the last printed lines are kept
MaxLines == 5

\* how long the time since the main flow ended is counted
MaxSince == 3

\* await asyncio.sleep(3) in fetch_orders
FetchNap == 3

\* as Period, but monitor_tea_temp does not sleep between its messages
PeriodNone == IF hybrid THEN 1 ELSE 0

\* time.sleep(2) in monitor_tea_temp, time.sleep(1) in background_worker
Period == IF hybrid THEN 1 ELSE 2

\* 07_daemon.py, 08_non_daemon.py, 06_bgworker.py: the thread object exists
LifeInit ==
    /\ \E script \in {<<TRUE, FALSE>>, <<FALSE, FALSE>>, <<TRUE, TRUE>>} :
          /\ daemon = script[1]
          /\ hybrid = script[2]
    /\ wpc = "new"
    /\ wrem = 0
    /\ prog = "start"
    /\ rrem = 0
    /\ lout = <<>>
    /\ since = 0
    /\ stop = "none"

\* print(line): the output after it, of which the last MaxLines are kept
Say(line) ==
    IF Len(lout) < MaxLines THEN Append(lout, line) ELSE Append(Tail(lout), line)

\* the process exists: its threads can run
AliveAlways == TRUE

Alive == prog # "exited"

\* where the thread is at the head of its loop: `while True:` goes on to
\* the print, `while not stop_flag.is_set():` reads the flag first
LoopHead == IF stop = "none" THEN "print" ELSE "test"

\* monitor_tea_temp: while True: print(...); time.sleep(2)
\* background_worker: while True: time.sleep(1); print(...)
Monitor ==
    /\ Alive
    /\ \/ /\ wpc = "print"
          /\ lout' = Say("monitoring")
          /\ wpc' = "sleep"
          /\ UNCHANGED wrem
       \/ /\ wpc = "sleep"
          /\ wrem' = Period
          /\ wpc' = "asleep"
          /\ UNCHANGED lout
       \/ /\ wpc = "asleep"
          /\ wrem = 0
          /\ wpc' = LoopHead
          /\ UNCHANGED <<wrem, lout>>
    /\ UNCHANGED <<daemon, hybrid, prog, rrem, since, stop>>
    /\ UNCHANGED NotLife

\* module level: t.start(); [asyncio.run(fetch_orders()): print, await
\* asyncio.sleep(3), print;] print("Main program done"); [print of the
\* note under it]
MainFlow ==
    /\ \/ /\ prog = "start"
          /\ prog' = "main"
          /\ wpc' = IF hybrid THEN "sleep" ELSE LoopHead
          /\ UNCHANGED <<rrem, lout>>
       \/ /\ prog = "main" /\ hybrid
          /\ lout' = Say("fetching")
          /\ rrem' = FetchNap
          /\ prog' = "await"
          /\ UNCHANGED wpc
       \/ /\ prog = "await" /\ rrem = 0
          /\ lout' = Say("fetched")
          /\ prog' = "ran"
          /\ UNCHANGED <<wpc, rrem>>
       \/ /\ prog = IF hybrid THEN "ran" ELSE "main"
          /\ lout' = Say("done")
          /\ prog' = IF hybrid THEN "shutdown" ELSE "note"
          /\ UNCHANGED <<wpc, rrem>>
       \/ /\ prog = "note"
          /\ lout' = Say("note")
          /\ prog' = "shutdown"
          /\ UNCHANGED <<wpc, rrem>>
    /\ UNCHANGED <<daemon, hybrid, wrem, since, stop>>
    /\ UNCHANGED NotLife

\* the interpreter may exit: every thread that is not a daemon has ended
\* (the thread of the scripts as written never ends)
CanExitAlways == TRUE

CanExit == daemon \/ wpc = "ended"

\* the main flow is over and the interpreter exits; what is left of the
\* daemon thread goes with the process
Exit ==
    /\ prog = "shutdown"
    /\ CanExit
    /\ prog' = "exited"
    /\ UNCHANGED <<daemon, hybrid, wpc, wrem, rrem, lout, since, stop>>
    /\ UNCHANGED NotLife

\* one unit of time passes while the thread sleeps and the main flow waits
\* for its own sleep or for the thread
LifeTick ==
    /\ Alive
    /\ wpc = "asleep" /\ wrem > 0
    /\ \/ prog = "await" /\ rrem > 0
       \/ prog = "shutdown" /\ ~CanExit
    /\ wrem' = wrem - 1
    /\ rrem' = IF prog = "await" THEN rrem - 1 ELSE rrem
    /\ since' = IF prog = "shutdown" /\ since < MaxSince THEN since + 1 ELSE since
    /\ UNCHANGED <<daemon, hybrid, wpc, prog, lout, stop>>
    /\ UNCHANGED NotLife

InitLife == CounterIdle /\ LockIdle /\ JoinIdle /\ AioIdle /\ PoolIdle /\ LifeInit /\ ProcIdle

NextLife ==
    \/ Monitor
    \/ MainFlow
    \/ Exit
    \/ LifeTick

\* every thread that can run is eventually run, and time does not stop
SpecLifecycle ==
    /\ InitLife
    /\ [][NextLife]_vars
    /\ WF_vars(Monitor)
    /\ WF_vars(MainFlow)
    /\ WF_vars(Exit)
    /\ WF_vars(LifeTick)

(***************************************************************************)
(* 08_non_daemon.py with the stop condition of its THE FIX note            *)
(* (option 2): the loop of the thread is `while not stop_flag.is_set():`,  *)
(* and stop_flag.set() is called at some later time, or never.             *)
(***************************************************************************)
\* stop_flag = threading.Event(); the thread is not a daemon
StopInit ==
    /\ daemon = FALSE
    /\ hybrid = FALSE
    /\ wpc = "new"
    /\ wrem = 0
    /\ prog = "start"
    /\ rrem = 0
    /\ lout = <<>>
    /\ since = 0
    /\ stop = "clear"

\* as LoopTest, but the loop goes on whatever the flag says
LoopTestBlind ==
    /\ Alive
    /\ wpc = "test"
    /\ wpc' = "print"
    /\ UNCHANGED <<daemon, hybrid, wrem, prog, rrem, lout, since, stop>>
    /\ UNCHANGED NotLife

\* while not stop_flag.is_set(): one reading of the flag at the head of the
\* loop; the function returns when the flag is set
LoopTest ==
    /\ Alive
    /\ wpc = "test"
    /\ wpc' = IF stop = "set" THEN "ended" ELSE "print"
    /\ UNCHANGED <<daemon, hybrid, wrem, prog, rrem, lout, since, stop>>
    /\ UNCHANGED NotLife

\* "Later: stop_flag.set()": at any time after the start of the thread
StopFlagSet ==
    /\ Alive
    /\ prog # "start"
    /\ stop = "clear"
    /\ stop' = "set"
    /\ UNCHANGED <<daemon, hybrid, wpc, wrem, prog, rrem, lout, since>>
    /\ UNCHANGED NotLife

InitStop == CounterIdle /\ LockIdle /\ JoinIdle /\ AioIdle /\ PoolIdle /\ StopInit /\ ProcIdle

NextStop ==
    \/ Monitor
    \/ LoopTest
    \/ StopFlagSet
    \/ MainFlow
    \/ Exit
    \/ LifeTick

\* every thread that can run is eventually run and time does not stop;
\* nothing makes anybody call stop_flag.set()
SpecStopFlag ==
    /\ InitStop
    /\ [][NextStop]_vars
    /\ WF_vars(Monitor)
    /\ WF_vars(LoopTest)
    /\ WF_vars(MainFlow)
    /\ WF_vars(Exit)
    /\ WF_vars(LifeTick)

(***************************************************************************)
(* Properties of the background thread scripts                             *)
(***************************************************************************)
\* C19: with a daemon thread the program exits once the main flow (in
\* 06_bgworker.py: after the root coroutine) has printed its last line: it
\* exits eventually, no time passes between the last line and the exit,
\* only a program whose thread is a daemon exits, and after the exit the
\* thread prints nothing and does not move.
C19_DaemonNotJoined ==
    /\ [](daemon => <>(prog = "exited"))
    /\ [](prog = "exited" => (daemon /\ since = 0))
    /\ [](prog = "exited" =>
            \E k \in DOMAIN lout : lout[k] = IF hybrid THEN "done" ELSE "note")
    /\ [][prog = "exited" => UNCHANGED lifeVars]_vars

C19_Witness ==
    /\ daemon
    /\ prog = "exited"
    /\ wpc = "asleep"
    /\ wrem > 0

\* C20: with a thread that is not a daemon the program never exits: once
\* 'Main program done' is printed the main flow waits for the thread for
\* ever, and the thread prints its line again and again.
C20_NonDaemonBlocksExit ==
    /\ [](~daemon => prog # "exited")
    /\ [](~daemon /\ prog = "shutdown" => [](prog = "shutdown"))
    /\ (~daemon => []<><<Monitor /\ wpc = "print">>_vars)

C20_Witness ==
    /\ ~daemon
    /\ prog = "shutdown"
    /\ since = MaxSince
    /\ wpc = "sleep"
    /\ Len(lout) = MaxLines
    /\ \A k \in DOMAIN lout : lout[k] = "monitoring"

(***************************************************************************)
(* Properties settled on the models above: the circular wait               *)
(***************************************************************************)
\* C29: in 10_deadlock.py the circular wait (task1 holds lock_a and waits
\* for lock_b, task2 holds lock_b and waits for lock_a, main blocked in
\* t1.join()) is reachable, and in it neither task nor the main flow has a
\* step: the state is never left.
C29_CircularWaitPermanent ==
    CircularWait => /\ dpc = "join"
                    /\ di = 1
                    /\ ~ENABLED NextDeadlock

C29_Witness ==
    /\ CircularWait
    /\ order = ScriptOrder
    /\ held = [l \in Locks |-> IF l = "a" THEN 1 ELSE 2]
    /\ dpc = "join"

(***************************************************************************)
(* Properties of the start-all / join-all scripts with failing workers     *)
(***************************************************************************)
\* C25: a failure inside one worker is isolated to that worker: when one of
\* the downloads raises, no other worker changes, every worker that does
\* not raise completes after exactly its own wait, the join loop returns
\* only once every worker has ended, and it always returns.
C25_FailureIsolated ==
    /\ [](\A w \in JWorkers :
            wst[w] = "completed" => finish[w] = SumSeq(waits[w]))
    /\ [](jpc \in {"end", "after"} =>
            \A w \in JWorkers : wst[w] \in {"completed", "raised"})
    /\ [][\A w \in JWorkers :
            (wst[w] # "raised" /\ wst'[w] = "raised") =>
                \A v \in JWorkers \ {w} :
                    wst'[v] = wst[v] /\ rem'[v] = rem[v]]_vars
    /\ <>(jpc = "after")

\* the first download fails at once, the other two complete later, and the
\* statement after the join loop is reached
C25_Witness ==
    /\ jpc = "after"
    /\ Len(waits) = 3
    /\ wst = <<"raised", "completed", "completed">>
    /\ finish[1] = 0
    /\ finish[3] = MaxWait
    /\ tend = MaxWait

MaxItems == 4

\* the k-th item producer p puts ("Masala chai is ready!" in the script)
Result(p, k) == <<"chai of", p, k>>

\* queue = Queue() ; the processes are created, none is started
QueueInit ==
    /\ drain \in BOOLEAN
    /\ \E n \in 1..MaxItems, k \in 1..MaxItems :
          /\ n * k <= MaxItems
          /\ ~drain => (n = 1 /\ k = 1)
          /\ qpc = [p \in 1..n |-> "new"]
          /\ qk = [p \in 1..n |-> k]
          /\ qbuf = [p \in 1..n |-> <<>>]
    /\ pipe = <<>>
    /\ qlog = <<>>
    /\ qmain = "start"
    /\ qi = 1
    /\ got = <<>>
    /\ threads = FALSE
    /\ work = 0
    /\ gst = <<>>
    /\ grem = <<>>
    /\ ran = {}
    /\ gnow = 0
    /\ gpc = "idle"
    /\ gi = 0
    /\ gstart = 0
    /\ gend = 0

\* Mutant: a process exits without waiting for its feeder thread.
FlushedAlways(p) == TRUE

\* the feeder thread of process p has written every item put by p
Flushed(p) == qbuf[p] = <<>>

\* prepare_chai in process p
Producer(p) ==
    /\ p \in DOMAIN qpc
    /\ \/ \* queue.put(result) ; print(f"... Put '{result}' into queue")
          /\ qpc[p] = "put"
          /\ qbuf' = [qbuf EXCEPT ![p] = Append(qbuf[p], Result(p, qk[p]))]
          /\ qlog' = Append(qlog, Result(p, qk[p]))
          /\ qk' = [qk EXCEPT ![p] = qk[p] - 1]
          /\ qpc' = [qpc EXCEPT ![p] = IF qk[p] > 1 THEN "put" ELSE "return"]
       \/ \* the target returns and the process exits
          /\ qpc[p] = "return"
          /\ Flushed(p)
          /\ qpc' = [qpc EXCEPT ![p] = "exited"]
          /\ UNCHANGED <<qk, qbuf, qlog>>
    /\ UNCHANGED <<drain, pipe, qmain, qi, got>>
    /\ UNCHANGED <<threads, work, gst, grem, ran, gnow, gpc, gi, gstart, gend>>
    /\ UNCHANGED NotProc

\* the feeder thread of process p: pickle the oldest item, write it
Feeder(p) ==
    /\ p \in DOMAIN qpc
    /\ qbuf[p] # <<>>
    /\ pipe' = Append(pipe, Pickle(Head(qbuf[p])))
    /\ qbuf' = [qbuf EXCEPT ![p] = Tail(qbuf[p])]
    /\ UNCHANGED <<drain, qpc, qk, qlog, qmain, qi, got>>
    /\ UNCHANGED <<threads, work, gst, grem, ran, gnow, gpc, gi, gstart, gend>>
    /\ UNCHANGED NotProc

\* module main: p.start() ; p.join() ; message = queue.get() -- or, with
\* several producers, start all, join all, while not queue.empty(): get()
QueueMain ==
    /\ \/ \* p.start() / for w in workers: w.start()
          /\ qmain = "start"
          /\ qpc' = [qpc EXCEPT ![qi] = "put"]
          /\ qi' = IF qi = Len(qpc) THEN 1 ELSE qi + 1
          /\ qmain' = IF qi = Len(qpc) THEN "join" ELSE "start"
          /\ UNCHANGED <<pipe, got>>
       \/ \* p.join() / for w in workers: w.join()
          /\ qmain = "join"
          /\ qpc[qi] = "exited"
          /\ qi' = IF qi = Len(qpc) THEN qi ELSE qi + 1
          /\ qmain' = IF qi = Len(qpc) THEN "get" ELSE "join"
          /\ UNCHANGED <<qpc, pipe, got>>
       \/ \* message = queue.get() : blocks while the pipe holds nothing
          /\ qmain = "get"
          /\ pipe # <<>>
          /\ got' = Append(got, Unpickle(Head(pipe)))
          /\ pipe' = Tail(pipe)
          /\ qmain' = IF drain THEN "get" ELSE "done"
          /\ UNCHANGED <<qpc, qi>>
       \/ \* while not queue.empty(): the loop ends
          /\ qmain = "get"
          /\ drain
          /\ pipe = <<>>
          /\ qmain' = "done"
          /\ UNCHANGED <<qpc, pipe, qi, got>>
    /\ UNCHANGED <<drain, qk, qbuf, qlog>>
    /\ UNCHANGED <<threads, work, gst, grem, ran, gnow, gpc, gi, gstart, gend>>
    /\ UNCHANGED NotProc

InitQueue ==
    CounterIdle /\ LockIdle /\ JoinIdle /\ AioIdle /\ PoolIdle /\ LifeIdle /\ QueueInit

NextQueue ==
    \/ \E p \in 1..MaxItems : Producer(p)
    \/ \E p \in 1..MaxItems : Feeder(p)
    \/ QueueMain

SpecQueue == InitQueue /\ [][NextQueue]_vars


(***************************************************************************)
(* Properties of the queue between processes                               *)
(***************************************************************************)
\* the items of sequence q that producer p put, in the order of q
ItemsOf(q, p) == SelectSeq(q, LAMBDA x : x[2] = p)

\* C21: what queue.get() returns to main is exactly a value a worker passed
\* to queue.put(): every value received was put, none is received twice,
\* the items of one producer are received in the order it put them, and in
\* the script the get issued after p.join() finds the item in the pipe: it
\* returns the worker's message without waiting.
C21_QueueHandOff ==
    /\ \A i \in DOMAIN got : \E j \in DOMAIN qlog : got[i] = qlog[j]
    /\ \A i, j \in DOMAIN got : i # j => got[i] # got[j]
    /\ \A p \in DOMAIN qpc :
          ItemsOf(got, p) = SubSeq(ItemsOf(qlog, p), 1, Len(ItemsOf(got, p)))
    /\ (Len(qpc) = 1 => got = SubSeq(qlog, 1, Len(got)))
    /\ (~drain /\ qmain = "get" => pipe = <<Pickle(Result(1, 1))>>)
    /\ (~drain /\ qmain = "done" => got = <<Result(1, 1)>>)

C21_Witness ==
    /\ ~drain
    /\ qmain = "done"
    /\ qpc = <<"exited">>
    /\ got = <<Result(1, 1)>>
    /\ pipe = <<>>

NCpuWorkers == 2
\* the model counts up to MaxWork units (the scripts count to 100 million)
MaxWork == 3

\* the workers are created, none is started
GilInit ==
    /\ threads \in BOOLEAN
    /\ work \in 1..MaxWork
    /\ gst = [w \in 1..NCpuWorkers |-> "new"]
    /\ grem = [w \in 1..NCpuWorkers |-> 0]
    /\ ran = {}
    /\ gnow = 0
    /\ gpc = "begin"
    /\ gi = 1
    /\ gstart = 0
    /\ gend = 0
    /\ drain = FALSE
    /\ qpc = <<>>
    /\ qk = <<>>
    /\ qbuf = <<>>
    /\ pipe = <<>>
    /\ qlog = <<>>
    /\ qmain = "idle"
    /\ qi = 0
    /\ got = <<>>

\* Mutant: every thread runs on a core of its own, no lock is shared.
CanRunNoLock(busy) == {busy}

\* The sets of workers that can execute during one unit of time, busy being
\* the workers inside their loop: one thread, whichever holds the lock, or
\* every process.
CanRun(busy) == IF threads THEN {{w} : w \in busy} ELSE {busy}

\* brew_chai / crunch_number / cpu_heavy
GilWorker(w) ==
    /\ \/ \* print started ; count = 0 ; the loop begins
          /\ gst[w] = "ready"
          /\ gst' = [gst EXCEPT ![w] = "computing"]
          /\ grem' = [grem EXCEPT ![w] = work]
       \/ \* the loop is over: print finished ; return
          /\ gst[w] = "computing"
          /\ grem[w] = 0
          /\ gst' = [gst EXCEPT ![w] = "finished"]
          /\ UNCHANGED grem
    /\ UNCHANGED <<threads, work, ran, gnow, gpc, gi, gstart, gend>>
    /\ UNCHANGED <<drain, qpc, qk, qbuf, pipe, qlog, qmain, qi, got>>
    /\ UNCHANGED NotProc

\* One unit of time passes, main being blocked in a join and every worker
\* in its loop or finished: the workers that can execute do one unit of
\* their loop.
GilTick ==
    /\ gpc = "join"
    /\ gst[gi] # "finished"
    /\ \A w \in 1..NCpuWorkers : \/ gst[w] = "computing" /\ grem[w] > 0
                                 \/ gst[w] = "finished"
    /\ \E r \in CanRun({w \in 1..NCpuWorkers : gst[w] = "computing"}) :
          /\ ran' = r
          /\ grem' = [w \in 1..NCpuWorkers |->
                        IF w \in r THEN grem[w] - 1 ELSE grem[w]]
    /\ gnow' = gnow + 1
    /\ UNCHANGED <<threads, work, gst, gpc, gi, gstart, gend>>
    /\ UNCHANGED <<drain, qpc, qk, qbuf, pipe, qlog, qmain, qi, got>>
    /\ UNCHANGED NotProc

\* module main: start = time.time() ; start both ; join both ;
\* end = time.time()
GilMain ==
    /\ \/ \* start = time.time()
          /\ gpc = "begin"
          /\ gstart' = gnow
          /\ gpc' = "start"
          /\ UNCHANGED <<gst, gi, gend>>
       \/ \* thread1.start() ; thread2.start()
          /\ gpc = "start"
          /\ gst' = [gst EXCEPT ![gi] = "ready"]
          /\ gi' = IF gi = NCpuWorkers THEN 1 ELSE gi + 1
          /\ gpc' = IF gi = NCpuWorkers THEN "join" ELSE "start"
          /\ UNCHANGED <<gstart, gend>>
       \/ \* thread1.join() ; thread2.join()
          /\ gpc = "join"
          /\ gst[gi] = "finished"
          /\ gi' = IF gi = NCpuWorkers THEN gi ELSE gi + 1
          /\ gpc' = IF gi = NCpuWorkers THEN "end" ELSE "join"
          /\ UNCHANGED <<gst, gstart, gend>>
       \/ \* end = time.time() ; print total time
          /\ gpc = "end"
          /\ gend' = gnow
          /\ gpc' = "after"
          /\ UNCHANGED <<gst, gi, gstart>>
    /\ UNCHANGED <<threads, work, grem, ran, gnow>>
    /\ UNCHANGED <<drain, qpc, qk, qbuf, pipe, qlog, qmain, qi, got>>
    /\ UNCHANGED NotProc

InitGil ==
    CounterIdle /\ LockIdle /\ JoinIdle /\ AioIdle /\ PoolIdle /\ LifeIdle /\ GilInit

NextGil ==
    \/ \E w \in 1..NCpuWorkers : GilWorker(w)
    \/ GilTick
    \/ GilMain

SpecGil == InitGil /\ [][NextGil]_vars

(***************************************************************************)
(* Properties of the CPU-bound workers                                     *)
(***************************************************************************)
\* C30: with threads at most one worker executes during any unit of time,
\* and two threads of `work` units each are joined exactly 2 x work units
\* after the start, as long as running one after the other; two processes
\* execute together and are joined after `work` units.
C30_LockSerialisesThreads ==
    /\ (threads => Cardinality(ran) <= 1)
    /\ (gpc \in {"end", "after"} =>
          gnow - gstart = IF threads THEN 2 * work ELSE work)
    /\ (gpc = "after" =>
          gend - gstart = IF threads THEN 2 * work ELSE work)
    /\ (~threads /\ gnow > 0 => ran = 1..NCpuWorkers)

\* two threads of MaxWork units each, joined after twice MaxWork units
C30_Witness ==
    /\ threads
    /\ work = MaxWork
    /\ gpc = "after"
    /\ gend - gstart = 2 * MaxWork
    /\ Cardinality(ran) = 1


(***************************************************************************)
(* Properties of the pool's size                                           *)
(***************************************************************************)
\* C24: a pool of at most M workers (five threads, or one process per
\* processor) never has more than M calls running; a call is started only
\* while fewer than M are running, and never ahead of a call submitted
\* before it for which no worker is left; every call submitted is started.
C24_PoolSizeBoundsRunning ==
    /\ [](Cardinality({d \in Calls : est[d] = "sleeping"})
            <= IF ekind = "thread" THEN PoolWorkers ELSE ncpu)
    /\ [][\A c \in Calls :
            (est[c] = "submitted" /\ est'[c] = "sleeping") =>
                Cardinality({d \in Calls : est[d] = "sleeping"}) + 1
                  + Cardinality({d \in Calls : d < c /\ est[d] = "submitted"})
                    <= IF ekind = "thread" THEN PoolWorkers ELSE ncpu]_vars
    /\ \A c \in 1..MostCalls :
          []((c \in Calls /\ est[c] = "submitted")
                => <>(c \in Calls /\ est[c] = "sleeping"))

\* one processor: the first call has returned, the second is running, the
\* third is waiting for the worker
C24_Witness ==
    /\ ekind = "process"
    /\ ncpu = 1
    /\ Len(eargs) = MostCalls
    /\ est = <<"returned", "sleeping", "submitted">>


(***************************************************************************)
(* Properties of the event loop: no preemption, one schedule               *)
(***************************************************************************)
\* how many steps of the coroutines, the loop and the module level are
\* possible, the failure of an awaited operation left aside
EnabledSteps ==
    Cardinality({t \in 1..NBrews : ENABLED BrewPrintStart(t)})
      + Cardinality({t \in 1..NBrews : ENABLED BrewAwaitSleep(t)})
      + Cardinality({t \in 1..NBrews : ENABLED BrewBlockingSleep(t)})
      + Cardinality({t \in 1..NBrews : ENABLED BrewFinish(t)})
      + (IF ENABLED MainBegin THEN 1 ELSE 0)
      + (IF ENABLED MainEnd THEN 1 ELSE 0)
      + (IF ENABLED Dispatch THEN 1 ELSE 0)
      + (IF ENABLED TimerFire THEN 1 ELSE 0)
      + (IF ENABLED RunStart THEN 1 ELSE 0)
      + (IF ENABLED RunReturn THEN 1 ELSE 0)
      + (IF ENABLED PrintCompleted THEN 1 ELSE 0)

C39_UnguardedRange ==
    ~guarded =>
        /\ counter <= SumSeq(iter)
        /\ (Joined => (counter >= 2 /\ counter <= Expected))
        /\ (mpc \in Results => Expected - counter >= 0)
        /\ (mpc = "lucky" <=> (mpc \in Results /\ counter = Expected))

\* every increment done, none lost
C39_Witness ==
    /\ ~guarded
    /\ mpc = "lucky"
    /\ \A w \in Workers : iter[w] = KIncr
    /\ Expected - counter = 0


\* C40: with the guard, whenever the lock is free the counter equals the
\* number of critical sections completed so far by all workers; the counter
\* never decreases, changes only in a step of the worker that holds the
\* lock, and by exactly 1, once in each critical section.
C40_CounterCountsSections ==
    /\ [](guarded /\ lock = NoOwner => counter = SumSeq(iter))
    /\ [](guarded => \A w \in Workers :
            /\ cpc[w] \in {"read", "add", "write"} => counter = SumSeq(iter)
            /\ cpc[w] = "exit" => counter = SumSeq(iter) + 1)
    /\ [][guarded /\ counter' # counter =>
            /\ counter' = counter + 1
            /\ lock # NoOwner
            /\ lock' = lock
            /\ cpc[lock] = "write"
            /\ cpc'[lock] = "exit"]_vars

\* between two critical sections: three are completed, two by one worker
\* and one by another, and the lock is free
C40_Witness ==
    /\ guarded
    /\ lock = NoOwner
    /\ counter = 3
    /\ \E w, v \in Workers : w # v /\ iter[w] = 2 /\ iter[v] = 1
    /\ mpc = "join"

(***************************************************************************)
(* 10_deadlock.py, remedy 3 (TRY-LOCK PATTERN), on both sides:             *)
(*   while True:                                                           *)
(*       with lock_a:                                                      *)
(*           if lock_b.acquire(blocking=False): try: ...; break            *)
(*                                              finally: lock_b.release()  *)
(*       time.sleep(0.1)                                                   *)
(* The body "..." is the print of the script's inner block.                *)
(***************************************************************************)
\* `with lock_a:` -- blocks until free
LockFirst(t) ==
    /\ tpc[t] = "acq1"
    /\ LockFree(First(t))
    /\ held' = [held EXCEPT ![First(t)] = t]
    /\ tpc' = [tpc EXCEPT ![t] = "try2"]
    /\ UNCHANGED <<order, dout, timedOut, dpc, di>>
    /\ UNCHANGED NotLock

\* as TryLockSecond, but the acquire blocks until the lock is free
TryLockSecondBlocking(t) ==
    /\ tpc[t] = "try2"
    /\ LockFree(Second(t))
    /\ held' = [held EXCEPT ![Second(t)] = t]
    /\ tpc' = [tpc EXCEPT ![t] = "print2"]
    /\ UNCHANGED <<order, dout, timedOut, dpc, di>>
    /\ UNCHANGED NotLock

\* `if lock_b.acquire(blocking=False):` -- returns at once, True with the
\* lock or False without it
TryLockSecond(t) ==
    /\ tpc[t] = "try2"
    /\ \/ /\ LockFree(Second(t))
          /\ held' = [held EXCEPT ![Second(t)] = t]
          /\ tpc' = [tpc EXCEPT ![t] = "print2"]
       \/ /\ ~LockFree(Second(t))
          /\ tpc' = [tpc EXCEPT ![t] = "giveup"]
          /\ UNCHANGED held
    /\ UNCHANGED <<order, dout, timedOut, dpc, di>>
    /\ UNCHANGED NotLock

\* the end of `with lock_a:` when the try failed: the lock is released
LeaveWith(t) ==
    /\ tpc[t] = "giveup"
    /\ held' = AfterRelease(t, First(t))
    /\ tpc' = [tpc EXCEPT ![t] = "nap"]
    /\ UNCHANGED <<order, dout, timedOut, dpc, di>>
    /\ UNCHANGED NotLock

\* time.sleep(0.1)  # Back off and retry
BackOff(t) ==
    /\ tpc[t] = "nap"
    /\ tpc' = [tpc EXCEPT ![t] = "acq1"]
    /\ UNCHANGED <<order, held, dout, timedOut, dpc, di>>
    /\ UNCHANGED NotLock

\* after a try that succeeded: the body, finally: lock_b.release(), break
\* (which leaves `with lock_a:`)
TaskTryLock(t) ==
    \/ LockFirst(t)
    \/ TryLockSecond(t)
    \/ LeaveWith(t)
    \/ BackOff(t)
    \/ PrintAcquiredSecond(t)
    \/ ReleaseSecond(t)
    \/ ReleaseFirst(t)

NextTryLock ==
    \/ \E t \in Tasks : TaskTryLock(t)
    \/ LockMain

\* every pair of acquisition orders; a runnable thread is eventually run
SpecTryLock ==
    /\ InitOrder
    /\ [][NextTryLock]_vars
    /\ \A t \in Tasks : WF_vars(TaskTryLock(t))
    /\ WF_vars(LockMain)

(***************************************************************************)
(* Properties of the background thread scripts: what the thread prints     *)
(***************************************************************************)
\* C34: in 06_bgworker.py the background worker logs exactly three times
\* between 'Fetching orders' and 'Order fetched successfully' (after 1, 2
\* and 3 seconds), the third log comes before 'Order fetched successfully',
\* and the program then completes.
C34_ThreeLogsThenFetched ==
    /\ [](hybrid /\ prog = "ran" =>
            lout = <<"fetching", "monitoring", "monitoring", "monitoring",
                     "fetched">>)
    /\ [](hybrid => <>(prog = "exited"))

\* C35: in 07_daemon.py the daemon thread prints its monitoring line at
\* most once before the program exits (no line of the output is lost from
\* the window kept: the run prints at most three lines), and once the
\* process has exited the thread is wherever the exit found it.
C35_DaemonPrintsAtMostOnce ==
    daemon /\ ~hybrid =>
        /\ Len(lout) <= 3
        /\ Cardinality({k \in DOMAIN lout : lout[k] = "monitoring"}) <= 1
        /\ (wpc = "asleep" => wrem = Period)

\* the thread is killed before its first print
C35_Witness ==
    /\ daemon /\ ~hybrid
    /\ prog = "exited"
    /\ wpc = "print"
    /\ lout = <<"done", "note">>

\* C36: with the stop flag of THE FIX, once stop_flag.set() has been called
\* the thread does not pass the test of its loop again (it does at most the
\* rest of the iteration it is in), it ends, and the program exits; while
\* the flag is not set the thread has not ended and the program has not
\* exited, and if the flag is never set the thread prints for ever.
C36_StopFlagEndsWorker ==
    /\ [][stop = "set" /\ wpc = "test" => wpc' \in {"test", "ended"}]_vars
    /\ [][wpc = "ended" => wpc' = "ended"]_vars
    /\ [](stop = "set" => <>(wpc = "ended"))
    /\ [](stop = "set" => <>(prog = "exited"))
    /\ [](stop = "clear" => (wpc # "ended" /\ prog # "exited"))
    /\ ([](stop = "clear") => []<><<Monitor /\ wpc = "print">>_vars)

\* the flag was set while the main flow waited for the thread: the thread
\* has printed several times, has ended, and the program has exited
C36_Witness ==
    /\ stop = "set"
    /\ wpc = "ended"
    /\ prog = "exited"
    /\ since > 0
    /\ Cardinality({k \in DOMAIN lout : lout[k] = "monitoring"}) >= 2

(***************************************************************************)
(* Properties of the try-lock pattern                                      *)
(***************************************************************************)
\* task t waits in a blocking acquire for a lock that is held
Blocked(t) == tpc[t] = "acq1" /\ ~LockFree(First(t))

\* C37: with the try-lock pattern on both sides a task waits in a blocking
\* acquire only while it holds no lock, and it holds no lock during its
\* back-off; the two tasks are never both blocked, a blocked task does not
\* stay blocked for ever, and as long as a task has not returned some task
\* has a step.
C37_TryLockNeverStuck ==
    /\ [](\A t \in Tasks :
            tpc[t] \in {"acq1", "nap"} => \A l \in Locks : held[l] # t)
    /\ [](\E t \in Tasks : ~Blocked(t))
    /\ []((\E t \in Tasks : tpc[t] \notin {"none", "new", "done"}) =>
            \E t \in Tasks : ENABLED TaskTryLock(t))
    /\ \A t \in Tasks : [](Blocked(t) => <>~Blocked(t))

\* both tasks took their first lock, in opposite orders, both tries failed
\* and both tasks are in their back-off with every lock free again
C37_Witness ==
    /\ order = ScriptOrder
    /\ \A t \in Tasks : tpc[t] = "nap"
    /\ \A l \in Locks : LockFree(l)

(***************************************************************************)
(* 11_process_queue.py, pattern 4 (SENTINEL VALUE): main puts its items    *)
(* and then None; a worker process loops on queue.get() and leaves the     *)
(* loop when it gets None.  Producer 1 is main here, and qmain is where    *)
(* the getting worker is; another process may put items of its own, as in  *)
(* pattern 1.                                                              *)
(***************************************************************************)
\* None, the stop signal
Sentinel == <<"None">>

\* queue = Queue(); the worker and the other producer, if any, are running
SentinelInit ==
    /\ drain = FALSE
    /\ \E n \in 1..2, k \in 1..MaxItems :
          /\ n * k <= MaxItems
          /\ qpc = [p \in 1..n |-> IF p = 1 THEN "mput" ELSE "put"]
          /\ qk = [p \in 1..n |-> k]
          /\ qbuf = [p \in 1..n |-> <<>>]
    /\ pipe = <<>>
    /\ qlog = <<>>
    /\ qmain = "get"
    /\ qi = 1
    /\ got = <<>>
    /\ threads = FALSE
    /\ work = 0
    /\ gst = <<>>
    /\ grem = <<>>
    /\ ran = {}
    /\ gnow = 0
    /\ gpc = "idle"
    /\ gi = 0
    /\ gstart = 0
    /\ gend = 0

\* main: queue.put(item) for its items, then queue.put(None)
SentinelMain ==
    /\ qpc[1] = "mput"
    /\ \/ /\ qk[1] > 0
          /\ qbuf' = [qbuf EXCEPT ![1] = Append(qbuf[1], Result(1, qk[1]))]
          /\ qlog' = Append(qlog, Result(1, qk[1]))
          /\ qk' = [qk EXCEPT ![1] = qk[1] - 1]
          /\ UNCHANGED qpc
       \/ /\ qk[1] = 0
          /\ qbuf' = [qbuf EXCEPT ![1] = Append(qbuf[1], Sentinel)]
          /\ qlog' = Append(qlog, Sentinel)
          /\ qpc' = [qpc EXCEPT ![1] = "sent"]
          /\ UNCHANGED qk
    /\ UNCHANGED <<drain, pipe, qmain, qi, got>>
    /\ UNCHANGED <<threads, work, gst, grem, ran, gnow, gpc, gi, gstart, gend>>
    /\ UNCHANGED NotProc

\* as SentinelWorker, but None is processed like any item
SentinelWorkerNoBreak ==
    /\ qmain = "get"
    /\ pipe # <<>>
    /\ pipe' = Tail(pipe)
    /\ got' = Append(got, Unpickle(Head(pipe)))
    /\ UNCHANGED <<drain, qpc, qk, qbuf, qlog, qmain, qi>>
    /\ UNCHANGED <<threads, work, gst, grem, ran, gnow, gpc, gi, gstart, gend>>
    /\ UNCHANGED NotProc

\* the worker: while True: item = queue.get(); if item is None: break;
\* process(item)
SentinelWorker ==
    /\ qmain = "get"
    /\ pipe # <<>>
    /\ pipe' = Tail(pipe)
    /\ IF Unpickle(Head(pipe)) = Sentinel
         THEN qmain' = "done" /\ UNCHANGED got
         ELSE got' = Append(got, Unpickle(Head(pipe))) /\ UNCHANGED qmain
    /\ UNCHANGED <<drain, qpc, qk, qbuf, qlog, qi>>
    /\ UNCHANGED <<threads, work, gst, grem, ran, gnow, gpc, gi, gstart, gend>>
    /\ UNCHANGED NotProc

InitSentinel ==
    CounterIdle /\ LockIdle /\ JoinIdle /\ AioIdle /\ PoolIdle /\ LifeIdle /\ SentinelInit

NextSentinel ==
    \/ SentinelMain
    \/ \E p \in 1..MaxItems : Producer(p)
    \/ \E p \in 1..MaxItems : Feeder(p)
    \/ SentinelWorker

\* every process and every feeder thread that can run is eventually run
SpecSentinel ==
    /\ InitSentinel
    /\ [][NextSentinel]_vars
    /\ WF_vars(SentinelMain)
    /\ WF_vars(\E p \in 1..MaxItems : Producer(p))
    /\ WF_vars(\E p \in 1..MaxItems : Feeder(p))
    /\ WF_vars(SentinelWorker)

(***************************************************************************)
(* Properties of the sentinel pattern                                      *)
(***************************************************************************)
\* the items of sequence q that main put, in the order of q
MainItems(q) == SelectSeq(q, LAMBDA x : x # Sentinel /\ x[2] = 1)

\* what was put before the sentinel, in the order the puts returned
PutBeforeSentinel ==
    SubSeq(qlog, 1, (CHOOSE j \in DOMAIN qlog : qlog[j] = Sentinel) - 1)

SeqInit ==
    /\ waits \in Scenarios
    /\ wst = [w \in 1..Len(waits) |-> "new"]
    /\ wk = [w \in 1..Len(waits) |-> 1]
    /\ rem = [w \in 1..Len(waits) |-> 0]
    /\ finish = [w \in 1..Len(waits) |-> 0]
    /\ now = 0
    /\ jpc \in {"begin", "sbegin"}
    /\ ji = 1
    /\ tstart = 0
    /\ tend = 0

\* as JoinInsideLoop, but the join in the loop returns without waiting
JoinInsideLoopNoWait ==
    /\ \/ /\ jpc = "sbegin"
          /\ tstart' = now
          /\ jpc' = "sstart"
          /\ UNCHANGED <<wst, ji, tend>>
       \/ /\ jpc = "sstart"
          /\ wst' = [wst EXCEPT ![ji] = "ready"]
          /\ jpc' = "sjoin"
          /\ UNCHANGED <<ji, tstart, tend>>
       \/ /\ jpc = "sjoin"
          /\ ji' = IF ji = Len(waits) THEN ji ELSE ji + 1
          /\ jpc' = IF ji = Len(waits) THEN "send" ELSE "sstart"
          /\ UNCHANGED <<wst, tstart, tend>>
       \/ /\ jpc = "send"
          /\ tend' = now
          /\ jpc' = "safter"
          /\ UNCHANGED <<wst, ji, tstart>>
    /\ UNCHANGED <<waits, wk, rem, finish, now>>
    /\ UNCHANGED NotJoin

\* start = time.time(); for url in urls: t = Thread(...); t.start();
\* t.join(); then end = time.time()
JoinInsideLoop ==
    /\ \/ /\ jpc = "sbegin"
          /\ tstart' = now
          /\ jpc' = "sstart"
          /\ UNCHANGED <<wst, ji, tend>>
       \/ \* t.start()
          /\ jpc = "sstart"
          /\ wst' = [wst EXCEPT ![ji] = "ready"]
          /\ jpc' = "sjoin"
          /\ UNCHANGED <<ji, tstart, tend>>
       \/ \* t.join(), and on to the next url
          /\ jpc = "sjoin"
          /\ JoinDone(ji)
          /\ ji' = IF ji = Len(waits) THEN ji ELSE ji + 1
          /\ jpc' = IF ji = Len(waits) THEN "send" ELSE "sstart"
          /\ UNCHANGED <<wst, tstart, tend>>
       \/ /\ jpc = "send"
          /\ tend' = now
          /\ jpc' = "safter"
          /\ UNCHANGED <<wst, ji, tstart>>
    /\ UNCHANGED <<waits, wk, rem, finish, now>>
    /\ UNCHANGED NotJoin

InitSeq == CounterIdle /\ LockIdle /\ SeqInit /\ AioIdle /\ PoolIdle /\ LifeIdle /\ ProcIdle

NextSeq ==
    \/ NextJoin
    \/ JoinInsideLoop

SpecSeq == InitSeq /\ [][NextSeq]_vars

(***************************************************************************)
(* Properties of the join inside the loop                                  *)
(***************************************************************************)
\* the main flow is the one with the join inside the loop
Sequential == jpc \in {"sbegin", "sstart", "sjoin", "send", "safter"}

\* worker w has been started and has not ended
Running(w) == wst[w] \in {"ready", "sleeping"}

\* C31: with the join inside the loop a worker is started only when the one
\* before it has completed, no two workers are running at the same time and
\* the time taken is the sum of the workers' waits; with start all, then
\* join all, every worker has been started when the first join is made.
C31_JoinInLoopIsSequential ==
    /\ Sequential =>
          /\ \A w \in JWorkers :
                (w > 1 /\ wst[w] # "new") => wst[w - 1] = "completed"
          /\ Cardinality({w \in JWorkers : Running(w)}) <= 1
    /\ jpc = "safter" => tend - tstart = SumOfWaits
    /\ jpc = "join" => \A w \in JWorkers : wst[w] # "new"
    /\ jpc = "after" => tend - tstart = LongestWait

\* waits of 2, 3 and 1 joined one by one: 6 units, not 3
C31_Witness ==
    /\ jpc = "safter"
    /\ waits = Durations231
    /\ tend - tstart = 6
    /\ finish = <<2, 5, 6>>

(***************************************************************************)
(* Properties of the order of completion, and of a worker's lifecycle      *)
(***************************************************************************)
\* the orders in which three downloads can be ranked by the time they take
Rankings ==
    {p \in [1..MostWorkers -> 1..MostWorkers] :
        \A v, w \in 1..MostWorkers : v # w => p[v] # p[w]}

\* C32: a download started with the others completes after the time it
\* takes itself, whatever its place in the start order; so for every
\* ranking of the three downloads by time there are runs, and when no
\* request fails they complete ('Finished ...') in that ranking and in no
\* other; a worker completes only from inside its request, that is after
\* its own 'Starting ...' line.
C32_CompletionOrderFree ==
    /\ [](waits \in Downloads =>
            \A w \in JWorkers :
                wst[w] = "completed" => finish[w] = waits[w][1])
    /\ \A p \in Rankings :
          (waits = [w \in 1..MostWorkers |-> <<p[w]>>]) =>
              <>(/\ jpc = "after"
                 /\ (\A w \in JWorkers : wst[w] = "completed") =>
                        \A v, w \in JWorkers :
                            p[v] < p[w] => finish[v] < finish[w])
    /\ [][\A w \in JWorkers :
            (wst'[w] = "completed" /\ wst[w] # "completed") =>
                (wst[w] = "sleeping" /\ rem[w] = 0)]_vars

\* the download started last is the first to complete, the one started
\* first the last
C32_Witness ==
    /\ jpc = "after"
    /\ waits = <<(<<3>>), (<<2>>), (<<1>>)>>
    /\ \A w \in JWorkers : wst[w] = "completed"
    /\ finish = <<3, 2, 1>>

\* where a worker is in its life: 0 created, 1 running, 2 completed or
\* failed
Stage(s) == IF s = "new" THEN 0 ELSE IF s \in {"ready", "sleeping"} THEN 1 ELSE 2

\* C33: a worker that is created and not started has run no step of its
\* target; only start() called on it makes it running, and start() is not
\* made to wait (it can be called whenever the main flow is at it, and no
\* time passes in it); a worker's state moves one stage at a time from
\* created to running to completed or failed, never back, and once it is
\* completed or failed it does not change.
C33_WorkerLifecycle ==
    /\ [](\A w \in JWorkers :
            wst[w] = "new" => (wk[w] = 1 /\ rem[w] = 0 /\ finish[w] = 0))
    /\ [](jpc = "start" => ENABLED JoinMainStart)
    /\ [][jpc = "start" => now' = now]_vars
    /\ [][\A w \in JWorkers :
            /\ Stage(wst'[w]) \in {Stage(wst[w]), Stage(wst[w]) + 1}
            /\ (wst[w] = "new" /\ wst'[w] # "new") =>
                  (jpc = "start" /\ ji = w /\ wst'[w] = "ready")
            /\ wst[w] \in {"completed", "raised"} => wst'[w] = wst[w]]_vars

\* the three chai makers are started and none has run yet: the main flow is
\* at its first join
C33_Witness ==
    /\ waits = ChaiMakers
    /\ jpc = "join"
    /\ ji = 1
    /\ \A w \in JWorkers : wst[w] = "ready"

====
